---- MODULE Spec2Model ----
(***************************************************************************)
(* Raft follower of the JMAP server cluster (src/src/cluster/follower.rs): *)
(* the follower task's state machine, the pending update queue, the change *)
(* log and the live document store it writes to.                           *)
(***************************************************************************)
EXTENDS Integers, Sequences, FiniteSets, TLC

(***************************************************************************)
(* Bounds and domains                                                      *)
(***************************************************************************)
\* Largest number of updates, not counting a closing Eof, in one message.
MaxUpdates == 1
\* Largest value of the staging sequence number the follower may reach.
MaxSeq == 2
\* Largest number of gossip messages the node handles in one behaviour.
MaxMessages == 2
\* Largest number of process crashes in one behaviour.
MaxCrashes == 1
\* Largest number of events the cluster sends to one follower task.
MaxEvents == 8
\* Largest number of events waiting in the channel of the task (the program
\* allows IPC_CHANNEL_BUFFER of them).
MaxBuffered == 2
\* Largest number of times the documents of one staged entry are written
\* while the entry stays in the queue.
MaxApplies == 2
\* Longest sequence of change records folded for one pair.
MaxRecords == 2

Accounts == {1, 2}
\* The log indexes the leader streams.
Indexes == {1, 2}
Collections == {"Mail", "Thread"}
DocIds == {1}
Terms == {1, 2}
\* Abstract mail content/tag states carried by a document update.
Values == {"a", "b"}

\* An index the leader has committed but not streamed yet.
AheadIndex == Cardinality(Indexes) + 1
\* LogIndex::MAX, the index of RaftId::none() and the "no target" argument:
\* above every index in use.
IndexMAX == AheadIndex + 1
\* TermId::MAX, above every term in use.
TermMAX == Cardinality(Terms) + 1
\* AccountId::MAX, the account of a fresh WriteBatch in the appliers.
AccountMAX == Cardinality(Accounts) + 1

(***************************************************************************)
(* Finite maps                                                             *)
(***************************************************************************)
EmptyMap == [x \in {} |-> TRUE]
Put(f, k, v) == [x \in (DOMAIN f) \cup {k} |-> IF x = k THEN v ELSE f[x]]
Del(f, K) == [x \in (DOMAIN f) \ K |-> f[x]]
Range(s) == {s[i] : i \in DOMAIN s}

(***************************************************************************)
(* RaftId                                                                  *)
(***************************************************************************)
RaftId(t, i) == [term |-> t, index |-> i]
RaftIdNone == RaftId(0, IndexMAX)
IsNone(id) == id.index = IndexMAX
\* Order of the serialized raft keys: term, then index (both big endian).
RaftLeq(a, b) == a.term < b.term \/ (a.term = b.term /\ a.index <= b.index)

\* "No value" of an Option of a record.
Nil == [nil |-> TRUE]
\* The last-applied marker when the key is absent.
NoMarker == -1

(***************************************************************************)
(* Change log store                                                        *)
(***************************************************************************)
\* Variant: the newest stored RaftId strictly below id.
get_prev_raft_id_strict(st, id) ==
    LET below == {r \in DOMAIN st.raft : RaftLeq(r, id) /\ r # id}
    IN IF below = {} THEN Nil
       ELSE CHOOSE r \in below : \A o \in below : RaftLeq(o, r)

\* Newest stored RaftId at or below id in key order; Nil when there is none.
get_prev_raft_id(st, id) ==
    LET below == {r \in DOMAIN st.raft : RaftLeq(r, id)}
    IN IF below = {} THEN Nil
       ELSE CHOOSE r \in below : \A o \in below : RaftLeq(o, r)

get_last_log(st) == get_prev_raft_id(st, RaftId(TermMAX, IndexMAX))

\* The last RaftId of every term of the local log, in ascending order.
RECURSIVE TermBoundaries(_, _)
TermBoundaries(ids, t) ==
    IF t > TermMAX THEN <<>>
    ELSE LET mine == {r \in ids : r.term = t}
         IN (IF mine = {} THEN <<>>
             ELSE <<CHOOSE r \in mine : \A o \in mine : o.index <= r.index>>)
            \o TermBoundaries(ids, t + 1)

get_raft_match_terms(st) ==
    IF DOMAIN st.raft = {} THEN <<RaftIdNone>>
    ELSE TermBoundaries(DOMAIN st.raft, 0)

\* The indexes the local log holds in the term of the entry at index.
get_raft_match_indexes(st, index) ==
    LET at == {r \in DOMAIN st.raft : r.index = index}
    IN {r.index : r \in {x \in DOMAIN st.raft : \E a \in at : a.term = x.term}}

\* Serialized bitmap: the members in ascending order.
RECURSIVE SerializeBitmap(_)
SerializeBitmap(S) ==
    IF S = {} THEN <<>>
    ELSE LET m == CHOOSE x \in S : \A y \in S : x <= y
         IN <<m>> \o SerializeBitmap(S \ {m})

ChangeKey(a, c, i) == [account_id |-> a, collection |-> c, index |-> i]

EmptyChanges == [inserts |-> {}, updates |-> {}, deletes |-> {}]

\* Variant: a deleted id stays in the running updates.
FoldChangeKeepUpdates(m, ch) ==
    LET ins == m.inserts \cup ch.inserts
        upd == m.updates \cup (ch.updates \ ins)
        gone == ch.deletes \cap ins
    IN [inserts |-> ins \ ch.deletes,
        updates |-> upd,
        deletes |-> m.deletes \cup (ch.deletes \ gone)]

\* Folds one change record into the running merged changes.
FoldChange(m, ch) ==
    LET ins == m.inserts \cup ch.inserts
        upd == m.updates \cup (ch.updates \ ins)
        gone == ch.deletes \cap ins
    IN [inserts |-> ins \ ch.deletes,
        updates |-> upd \ ch.deletes,
        deletes |-> m.deletes \cup (ch.deletes \ gone)]

RECURSIVE MergeRange(_, _, _, _, _, _)
MergeRange(st, a, c, i, to, m) ==
    IF i > to \/ i > IndexMAX THEN m
    ELSE MergeRange(st, a, c, i + 1, to,
            IF ChangeKey(a, c, i) \in DOMAIN st.changes
            THEN FoldChange(m, st.changes[ChangeKey(a, c, i)]) ELSE m)

\* Net inserts/updates/deletes of the pair over the records in (from, to].
merge_changes(st, a, c, from, to) ==
    IF c = "Thread" THEN EmptyChanges
    ELSE MergeRange(st, a, c, from + 1, to, EmptyChanges)

\* Order of the Collection enum in the serialized keys.
CollectionOrd(c) == IF c = "Mail" THEN 0 ELSE IF c = "Mailbox" THEN 1 ELSE 2

PairKey(a, c) == [account_id |-> a, collection |-> c]
PairLeq(p, q) ==
    p.account_id < q.account_id
    \/ (p.account_id = q.account_id
        /\ CollectionOrd(p.collection) <= CollectionOrd(q.collection))

\* Records, for every pair changed after after_index, what has to be undone.
prepare_rollback_changes(st, after_index) ==
    LET dirty == {PairKey(k.account_id, k.collection) :
                    k \in {x \in DOMAIN st.changes : x.index > after_index}}
    IN [st EXCEPT !.rollback =
          [p \in (DOMAIN st.rollback) \cup dirty |->
             IF p \in dirty
             THEN MergeRange(st, p.account_id, p.collection, after_index + 1,
                             IndexMAX, EmptyChanges)
             ELSE st.rollback[p]]]

\* First pending rollback target in key order, Nil when none is left.
next_rollback_change(st) ==
    IF DOMAIN st.rollback = {} THEN Nil
    ELSE LET p == CHOOSE x \in DOMAIN st.rollback :
                     \A y \in DOMAIN st.rollback : PairLeq(x, y)
         IN [account_id |-> p.account_id, collection |-> p.collection,
             changes |-> st.rollback[p]]

remove_rollback_change(st, a, c) ==
    [st EXCEPT !.rollback = Del(st.rollback, {PairKey(a, c)})]

(***************************************************************************)
(* Live document store and write batches                                   *)
(***************************************************************************)
DocKey(a, c, d) == [account_id |-> a, collection |-> c, document_id |-> d]

NewBatch(a) == [account_id |-> a, ops |-> <<>>]

delete_document(batch, c, d) ==
    [batch EXCEPT !.ops = Append(@, [op |-> "delete", collection |-> c,
                                     document_id |-> d, value |-> "none"])]

RECURSIVE DeleteAll(_, _, _)
DeleteAll(batch, c, ids) ==
    IF ids = <<>> THEN batch
    ELSE DeleteAll(delete_document(batch, c, Head(ids)), c, Tail(ids))

\* One operation of a document batch applied to the documents.
WriteOp(docs, a, o) ==
    LET k == DocKey(a, o.collection, o.document_id)
    IN CASE o.op = "insert" -> Put(docs, k, o.value)
         [] o.op = "update" -> IF k \in DOMAIN docs THEN Put(docs, k, o.value)
                               ELSE docs
         [] OTHER -> Del(docs, {k})

RECURSIVE WriteOps(_, _, _)
WriteOps(docs, a, ops) ==
    IF ops = <<>> THEN docs
    ELSE WriteOps(WriteOp(docs, a, Head(ops)), a, Tail(ops))

\* JMAPStore::write of a document batch: all of it or nothing.
StoreWrite(st, batch) ==
    [st EXCEPT !.docs = WriteOps(st.docs, batch.account_id, batch.ops)]

\* The mail update of a replicated document, accumulated into the batch.
raft_update_mail(st, batch, a, d, value, insert) ==
    IF insert
    THEN [batch EXCEPT !.ops = Append(@, [op |-> "insert", collection |-> "Mail",
                                          document_id |-> d, value |-> value])]
    ELSE IF DocKey(a, "Mail", d) \notin DOMAIN st.docs THEN batch
    ELSE IF st.docs[DocKey(a, "Mail", d)] = value THEN batch
    ELSE [batch EXCEPT !.ops = Append(@, [op |-> "update", collection |-> "Mail",
                                          document_id |-> d, value |-> value])]

raft_update_mailbox(st, batch, a, d, value) ==
    [batch EXCEPT !.ops = Append(@, [op |-> "insert", collection |-> "Mailbox",
                                     document_id |-> d, value |-> value])]

apply_document_update(st, a, d, update, batch) ==
    CASE update.kind = "InsertMail" ->
            raft_update_mail(st, batch, a, d, update.value, TRUE)
      [] update.kind = "UpdateMail" ->
            raft_update_mail(st, batch, a, d, update.value, FALSE)
      [] OTHER -> raft_update_mailbox(st, batch, a, d, update.value)

(***************************************************************************)
(* Execution context of one handler: the store, the history of the staged  *)
(* batches, the store operations performed so far in this step (ops) and   *)
(* the snapshots taken before every store write (trace), which are the     *)
(* states a crash or a failed write can leave behind.                      *)
(***************************************************************************)
Snap(c) == [st |-> c.st, hist |-> c.hist, ops |-> c.ops]
Ctx(st, h) == [st |-> st, hist |-> h, ops |-> <<>>, trace |-> <<>>]
\* A store write: everything before it is a possible crash point.
Wr(c, st2, h2, o) ==
    [st |-> st2, hist |-> h2, ops |-> Append(c.ops, o),
     trace |-> Append(c.trace, Snap(c))]
\* A store read or computation worth recording, without effect on the store.
Note(c, o) == [c EXCEPT !.ops = Append(@, o)]

(***************************************************************************)
(* Pending update queue                                                    *)
(***************************************************************************)
PendingKey(i, s) == [index |-> i, seq |-> s]
\* Order of LogKey::serialize_pending_update: index, then sequence.
PendingLeq(k, l) == k.index < l.index \/ (k.index = l.index /\ k.seq <= l.seq)

RECURSIVE SortPending(_)
SortPending(K) ==
    IF K = {} THEN <<>>
    ELSE LET m == CHOOSE x \in K : \A y \in K : PendingLeq(x, y)
         IN <<m>> \o SortPending(K \ {m})

\* db.set of a serialized PendingUpdates value under (index, seq).
StagePending(c, key, updates) ==
    Wr(c, [c.st EXCEPT !.pending = Put(@, key, updates)],
       Put(c.hist, key, 0),
       [op |-> "stage", key |-> key, updates |-> updates])

WriteDocuments(c, key, batch) ==
    Wr(c, StoreWrite(c.st, batch), c.hist,
       [op |-> "write", key |-> key, batch |-> batch])

\* Variant: after the batch of an account is written the next account goes
\* on with the same batch instead of a new one.
RECURSIVE ApplyBatchUpdatesKeep(_, _, _, _)
ApplyBatchUpdatesKeep(c, key, updates, batch) ==
    IF updates = <<>>
    THEN IF batch.ops # <<>> THEN WriteDocuments(c, key, batch) ELSE c
    ELSE LET u == Head(updates)
             switch == u.account_id # batch.account_id
             c1 == IF switch /\ batch.ops # <<>>
                   THEN WriteDocuments(c, key, batch) ELSE c
             b1 == [batch EXCEPT !.account_id = u.account_id]
             b2 == IF u.type = "UpdateDocument"
                   THEN apply_document_update(c1.st, u.account_id,
                                              u.document_id, u.update, b1)
                   ELSE DeleteAll(b1, u.collection,
                                  SerializeBitmap(u.document_ids))
         IN ApplyBatchUpdatesKeep(c1, key, Tail(updates), b2)

\* The updates of one staged entry, grouped into one batch per account run.
RECURSIVE ApplyBatchUpdates(_, _, _, _)
ApplyBatchUpdates(c, key, updates, batch) ==
    IF updates = <<>>
    THEN IF batch.ops # <<>> THEN WriteDocuments(c, key, batch) ELSE c
    ELSE LET u == Head(updates)
             switch == u.account_id # batch.account_id
             c1 == IF switch /\ batch.ops # <<>>
                   THEN WriteDocuments(c, key, batch) ELSE c
             b1 == IF switch THEN NewBatch(u.account_id) ELSE batch
             b2 == IF u.type = "UpdateDocument"
                   THEN apply_document_update(c1.st, u.account_id,
                                              u.document_id, u.update, b1)
                   ELSE DeleteAll(b1, u.collection,
                                  SerializeBitmap(u.document_ids))
         IN ApplyBatchUpdates(c1, key, Tail(updates), b2)

\* hist counts, for every staged entry, how often all of its document
\* batches have been written to the live store.
Applied(h, key) == [h EXCEPT ![key] = @ + 1]

\* Variant: the staged entry is deleted from the queue before its documents
\* are written.
ApplyEntryDeleteFirst(c, key) ==
    LET c1 == Wr(c, [c.st EXCEPT !.pending = Del(@, {key})], Del(c.hist, {key}),
                 [op |-> "delete_pending", key |-> key, applied |-> c.hist[key]])
    IN ApplyBatchUpdates(c1, key, c.st.pending[key], NewBatch(AccountMAX))

\* A staged entry at or below the target: written to the documents, then
\* deleted from the queue.
ApplyEntry(c, key) ==
    LET c1 == ApplyBatchUpdates(c, key, c.st.pending[key], NewBatch(AccountMAX))
        c2 == [c1 EXCEPT !.hist = Applied(@, key)]
    IN Wr(c2, [c2.st EXCEPT !.pending = Del(@, {key})],
          Del(c2.hist, {key}),
          [op |-> "delete_pending", key |-> key, applied |-> c2.hist[key]])

\* Variant: every staged entry is applied, whatever its index.
RECURSIVE ApplyLoopAll(_, _, _, _, _)
ApplyLoopAll(c, keys, target, do_reset, drop) ==
    IF keys = <<>> THEN [c |-> c, drop |-> drop, more |-> FALSE]
    ELSE ApplyLoopAll(ApplyEntry(c, Head(keys)), Tail(keys), target, do_reset,
                      drop)

RECURSIVE ApplyLoop(_, _, _, _, _)
ApplyLoop(c, keys, target, do_reset, drop) ==
    IF keys = <<>> THEN [c |-> c, drop |-> drop, more |-> FALSE]
    ELSE LET k == Head(keys)
         IN IF target # IndexMAX /\ k.index <= target
            THEN ApplyLoop(ApplyEntry(c, k), Tail(keys), target, do_reset, drop)
            ELSE IF do_reset
            THEN ApplyLoop(c, Tail(keys), target, do_reset, drop \cup {k})
            ELSE [c |-> c, drop |-> drop, more |-> TRUE]

\* Variant: only the Item variant names change records.
EntryChangeKeysItem(entry, index) ==
    IF entry.kind = "Item"
    THEN {ChangeKey(entry.account_id, col, index) :
            col \in entry.changed_collections}
    ELSE {}

\* The change records named by a raft entry stored at index.
EntryChangeKeys(entry, index) ==
    IF entry.kind = "Item"
    THEN {ChangeKey(entry.account_id, col, index) :
            col \in entry.changed_collections}
    ELSE UNION {{ChangeKey(a, col, index) : a \in g.accounts, col \in g.collections} :
                  g \in entry.changed_accounts}

\* The single batch of deletions that ends a reset.
ResetLog(c, target, drop) ==
    LET from == RaftId(0, IF target # IndexMAX THEN target ELSE 0)
        gone == {r \in DOMAIN c.st.raft :
                   /\ RaftLeq(from, r)
                   /\ (target = IndexMAX \/ r.index > target)}
        chg  == UNION {EntryChangeKeys(c.st.raft[r], r.index) : r \in gone}
    IN Wr(c, [c.st EXCEPT !.pending = Del(@, drop),
                          !.last_applied = NoMarker,
                          !.changes = Del(@, chg),
                          !.raft = Del(@, gone)],
          Del(c.hist, drop),
          [op |-> "reset", raft |-> gone,
           dropped |-> {[key |-> k, applied |-> c.hist[k]] : k \in drop}])

apply_pending_updates(c, apply_up_to, do_reset) ==
    IF apply_up_to = IndexMAX /\ c.st.last_applied = NoMarker
    THEN [c |-> c, result |-> FALSE]
    ELSE LET c1 == IF apply_up_to # IndexMAX
                   THEN Wr(c, [c.st EXCEPT !.last_applied = apply_up_to], c.hist,
                           [op |-> "set_last_applied", index |-> apply_up_to])
                   ELSE c
             target == IF apply_up_to # IndexMAX THEN apply_up_to
                       ELSE c.st.last_applied
             l == ApplyLoop(c1, SortPending(DOMAIN c1.st.pending), target,
                            do_reset, {})
         IN [c |-> IF do_reset THEN ResetLog(l.c, target, l.drop) ELSE l.c,
             result |-> TRUE]

apply_committed_updates(c) == apply_pending_updates(c, IndexMAX, TRUE)

\* Discards what an earlier run left uncommitted.
reset_uncommitted_changes(c) == apply_pending_updates(c, IndexMAX, TRUE).c

init_last_applied_index(c) ==
    LET last == get_prev_raft_id(c.st, RaftId(TermMAX, IndexMAX))
        index == IF last = Nil THEN IndexMAX ELSE last.index
    IN Wr(c, [c.st EXCEPT !.last_applied = index], c.hist,
          [op |-> "set_last_applied", index |-> index])

(***************************************************************************)
(* Follower state and responses                                            *)
(***************************************************************************)
StSynchronize == [tag |-> "Synchronize"]
StAppendEntries(first_id, last_id, changed_accounts) ==
    [tag |-> "AppendEntries", first_id |-> first_id, last_id |-> last_id,
     changed_accounts |-> changed_accounts]
StAppendChanges(first_id, last_id, changed_accounts) ==
    [tag |-> "AppendChanges", first_id |-> first_id, last_id |-> last_id,
     changed_accounts |-> changed_accounts]
StRollback(a, col, changes) ==
    [tag |-> "Rollback", account_id |-> a, collection |-> col,
     changes |-> changes]

NoResponse == [type |-> "None"]
RespContinue == [type |-> "Continue"]
RespMatch(id) == [type |-> "Match", match_log |-> id]
RespSynchronize(bytes) == [type |-> "Synchronize", match_indexes |-> bytes]
RespCommit(i) == [type |-> "Commit", commit_index |-> i]
\* MergedChanges::serialize: the three bitmaps, one after the other.
SerializeChanges(m) ==
    [inserts |-> SerializeBitmap(m.inserts),
     updates |-> SerializeBitmap(m.updates),
     deletes |-> SerializeBitmap(m.deletes)]
RespUpdate(a, col, m) ==
    [type |-> "Update", account_id |-> a, collection |-> col,
     changes |-> SerializeChanges(m)]

\* What a handler returns: None (failed) or the next state and the response,
\* with the task's locals it updated on the way.
Failed(c, r) ==
    [ok |-> FALSE, c |-> c, state |-> StSynchronize, response |-> NoResponse,
     seq |-> r.seq, up |-> r.up, merged |-> r.merged]
Done(c, r, state, response) ==
    [ok |-> TRUE, c |-> c, state |-> state, response |-> response,
     seq |-> r.seq, up |-> r.up, merged |-> r.merged]

\* Collections::pop on the bitmap of collections.
PopCollection(S) ==
    CHOOSE x \in S : \A y \in S : CollectionOrd(y) <= CollectionOrd(x)

(***************************************************************************)
(* request_updates: drains the worklist of dirty (account, collections)    *)
(* from the back.  r carries first_id, last_id, the leader's commit index, *)
(* change_seq (seq), the up-to-date flag (up) and the pairs merged so far  *)
(* in this round (merged).                                                 *)
(***************************************************************************)
DeleteDocuments(a, col, ids) ==
    [type |-> "DeleteDocuments", account_id |-> a, collection |-> col,
     document_ids |-> ids]

\* Variant: up to date as soon as the leader's commit index is reached or
\* passed.
IsUpToDateLeq(r) == r.last_id.index <= r.commit

\* The test that guards set_up_to_date(true).
IsUpToDate(r) == r.last_id.index = r.commit

\* Variant: the staged updates are applied whatever the leader's commit index.
RequestUpdatesDrainedAlways(c, r) ==
    LET c1 == apply_pending_updates(c, r.last_id.index, FALSE).c
        r1 == IF IsUpToDate(r) THEN [r EXCEPT !.up = TRUE] ELSE r
    IN Done(c1, r1, StSynchronize, RespCommit(r.last_id.index))

\* The worklist is empty: apply, mark, commit.
RequestUpdatesDrained(c, r) ==
    LET apply == r.last_id.index <= r.commit
        c1 == IF apply
              THEN apply_pending_updates(c, r.last_id.index, FALSE).c ELSE c
        r1 == IF apply /\ IsUpToDate(r)
              THEN [r EXCEPT !.up = TRUE] ELSE r
    IN Done(c1, r1, StSynchronize, RespCommit(r.last_id.index))

\* Variant: popping an exhausted account also pops the account before it.
RECURSIVE NextPairSkip(_)
NextPairSkip(wl) ==
    IF wl = <<>> THEN [found |-> FALSE, wl |-> wl]
    ELSE LET n == Len(wl)
             top == wl[n]
         IN IF top.collections = {}
            THEN NextPairSkip(SubSeq(wl, 1, IF n >= 2 THEN n - 2 ELSE 0))
            ELSE LET col == PopCollection(top.collections)
                     wl1 == [wl EXCEPT ![n].collections = @ \ {col}]
                 IN IF col = "Thread" THEN NextPairSkip(wl1)
                    ELSE [found |-> TRUE, account_id |-> top.account_id,
                          collection |-> col, wl |-> wl1]

\* The next pair to process, taken from the back of the worklist: exhausted
\* accounts are popped, Thread is skipped.
RECURSIVE NextPair(_)
NextPair(wl) ==
    IF wl = <<>> THEN [found |-> FALSE, wl |-> wl]
    ELSE LET n == Len(wl)
             top == wl[n]
         IN IF top.collections = {} THEN NextPair(SubSeq(wl, 1, n - 1))
            ELSE LET col == PopCollection(top.collections)
                     wl1 == [wl EXCEPT ![n].collections = @ \ {col}]
                 IN IF col = "Thread" THEN NextPair(wl1)
                    ELSE [found |-> TRUE, account_id |-> top.account_id,
                          collection |-> col, wl |-> wl1]

\* Variant: AppendChanges carries the worklist as it was before the pair was
\* taken from it.
RECURSIVE request_updates_keep(_, _, _)
request_updates_keep(c, r, wl) ==
    LET p == NextPair(wl)
    IN IF ~p.found THEN RequestUpdatesDrained(c, r)
       ELSE LET a == p.account_id
                col == p.collection
                changes == merge_changes(c.st, a, col, r.first_id.index,
                                         r.last_id.index)
                c1 == Note(c, [op |-> "merge_changes", account_id |-> a,
                               collection |-> col])
                del == changes.deletes # {}
                c2 == IF del
                      THEN StagePending(c1, PendingKey(r.last_id.index, r.seq),
                                        <<DeleteDocuments(a, col, changes.deletes)>>)
                      ELSE c1
                r2 == [r EXCEPT !.seq = IF del THEN @ + 1 ELSE @,
                                !.merged = Append(@, PairKey(a, col))]
                rest == [changes EXCEPT !.deletes = {}]
            IN IF rest.inserts # {} \/ rest.updates # {}
               THEN Done(c2, r2, StAppendChanges(r.first_id, r.last_id, wl),
                         RespUpdate(a, col, rest))
               ELSE request_updates_keep(c2, r2, p.wl)

\* Variant: the deletes are staged and also reported to the leader.
RECURSIVE request_updates_report(_, _, _)
request_updates_report(c, r, wl) ==
    LET p == NextPair(wl)
    IN IF ~p.found THEN RequestUpdatesDrained(c, r)
       ELSE LET a == p.account_id
                col == p.collection
                changes == merge_changes(c.st, a, col, r.first_id.index,
                                         r.last_id.index)
                c1 == Note(c, [op |-> "merge_changes", account_id |-> a,
                               collection |-> col])
                del == changes.deletes # {}
                c2 == IF del
                      THEN StagePending(c1, PendingKey(r.last_id.index, r.seq),
                                        <<DeleteDocuments(a, col, changes.deletes)>>)
                      ELSE c1
                r2 == [r EXCEPT !.seq = IF del THEN @ + 1 ELSE @,
                                !.merged = Append(@, PairKey(a, col))]
            IN IF changes.inserts # {} \/ changes.updates # {}
               THEN Done(c2, r2, StAppendChanges(r.first_id, r.last_id, p.wl),
                         RespUpdate(a, col, changes))
               ELSE request_updates_report(c2, r2, p.wl)

RECURSIVE request_updates(_, _, _)
request_updates(c, r, wl) ==
    LET p == NextPair(wl)
    IN IF ~p.found THEN RequestUpdatesDrained(c, r)
       ELSE LET a == p.account_id
                col == p.collection
                changes == merge_changes(c.st, a, col, r.first_id.index,
                                         r.last_id.index)
                c1 == Note(c, [op |-> "merge_changes", account_id |-> a,
                               collection |-> col])
                del == changes.deletes # {}
                c2 == IF del
                      THEN StagePending(c1, PendingKey(r.last_id.index, r.seq),
                                        <<DeleteDocuments(a, col, changes.deletes)>>)
                      ELSE c1
                r2 == [r EXCEPT !.seq = IF del THEN @ + 1 ELSE @,
                                !.merged = Append(@, PairKey(a, col))]
                rest == [changes EXCEPT !.deletes = {}]
            IN IF rest.inserts # {} \/ rest.updates # {}
               THEN Done(c2, r2, StAppendChanges(r.first_id, r.last_id, p.wl),
                         RespUpdate(a, col, rest))
               ELSE request_updates(c2, r2, p.wl)

(***************************************************************************)
(* handle_update_log: the entry stream, one batch write per message        *)
(***************************************************************************)
IsEof(u) == u.type = "Eof"
HasEof(updates) == \E i \in DOMAIN updates : IsEof(updates[i])
\* Variant: only Eof ends the entry stream.
IsDoneEofOnly(updates) == HasEof(updates)

\* is_done of handle_update_log: set for an empty list, and by Eof.
IsDone(updates) == updates = <<>> \/ HasEof(updates)

\* The loop over the updates: f carries first_id, last_id, changed_accounts
\* and the store after the batch (raft, changes).
\* Variant: a Change record is keyed by the first entry of the stream
\* instead of the last one.
RECURSIVE UpdateLogLoopFirst(_, _)
UpdateLogLoopFirst(f, updates) ==
    IF updates = <<>> THEN f
    ELSE LET u == Head(updates)
             g == CASE u.type = "Change" ->
                       [f EXCEPT
                          !.changes = Put(@, ChangeKey(u.account_id, u.collection,
                                                       f.first_id.index), u.change),
                          !.written = TRUE,
                          !.changed_accounts =
                             Put(@, u.account_id,
                                 (IF u.account_id \in DOMAIN @
                                  THEN @[u.account_id] ELSE {})
                                 \cup {u.collection})]
                    [] u.type = "Log" ->
                       [f EXCEPT
                          !.first_id = IF IsNone(@) THEN u.raft_id ELSE @,
                          !.last_id = u.raft_id,
                          !.written = TRUE,
                          !.raft = Put(@, u.raft_id, u.log)]
                    [] OTHER -> f
         IN UpdateLogLoopFirst(g, Tail(updates))

\* Variant: first_id follows every Log update, like last_id.
RECURSIVE UpdateLogLoopLatest(_, _)
UpdateLogLoopLatest(f, updates) ==
    IF updates = <<>> THEN f
    ELSE LET u == Head(updates)
             g == CASE u.type = "Change" ->
                       [f EXCEPT
                          !.changes = Put(@, ChangeKey(u.account_id, u.collection,
                                                       f.last_id.index), u.change),
                          !.written = TRUE,
                          !.changed_accounts =
                             Put(@, u.account_id,
                                 (IF u.account_id \in DOMAIN @
                                  THEN @[u.account_id] ELSE {})
                                 \cup {u.collection})]
                    [] u.type = "Log" ->
                       [f EXCEPT
                          !.first_id = u.raft_id,
                          !.last_id = u.raft_id,
                          !.written = TRUE,
                          !.raft = Put(@, u.raft_id, u.log)]
                    [] OTHER -> f
         IN UpdateLogLoopLatest(g, Tail(updates))

RECURSIVE UpdateLogLoop(_, _)
UpdateLogLoop(f, updates) ==
    IF updates = <<>> THEN f
    ELSE LET u == Head(updates)
             g == CASE u.type = "Change" ->
                       [f EXCEPT
                          !.changes = Put(@, ChangeKey(u.account_id, u.collection,
                                                       f.last_id.index), u.change),
                          !.written = TRUE,
                          !.changed_accounts =
                             Put(@, u.account_id,
                                 (IF u.account_id \in DOMAIN @
                                  THEN @[u.account_id] ELSE {})
                                 \cup {u.collection})]
                    [] u.type = "Log" ->
                       [f EXCEPT
                          !.first_id = IF IsNone(@) THEN u.raft_id ELSE @,
                          !.last_id = u.raft_id,
                          !.written = TRUE,
                          !.raft = Put(@, u.raft_id, u.log)]
                    [] OTHER -> f
         IN UpdateLogLoop(g, Tail(updates))

\* order: the order in which the HashMap of changed accounts is collected
\* into the worklist vector.
handle_update_log(c, first_id, last_id, r, changed_accounts, updates, order) ==
    LET f == UpdateLogLoop([first_id |-> first_id, last_id |-> last_id,
                            changed_accounts |-> changed_accounts,
                            raft |-> c.st.raft, changes |-> c.st.changes,
                            written |-> FALSE], updates)
        is_done == IsDone(updates)
        c1 == IF f.written
              THEN Wr(c, [c.st EXCEPT !.raft = f.raft, !.changes = f.changes],
                      c.hist, [op |-> "write_log", last_id |-> f.last_id])
              ELSE c
        r1 == [r EXCEPT !.first_id = f.first_id, !.last_id = f.last_id]
    IN IF is_done
       THEN request_updates(c1, r1,
               [i \in 1..Len(order) |->
                  [account_id |-> order[i],
                   collections |-> f.changed_accounts[order[i]]]])
       ELSE Done(c1, r1, StAppendEntries(f.first_id, f.last_id,
                                         f.changed_accounts), RespContinue)

(***************************************************************************)
(* handle_pending_updates: the documents of the pair asked for             *)
(***************************************************************************)
UpdateDocument(u) ==
    [type |-> "UpdateDocument", account_id |-> u.account_id,
     document_id |-> u.document_id, update |-> u.update]

RECURSIVE CollectDocuments(_)
CollectDocuments(updates) ==
    IF updates = <<>> THEN <<>>
    ELSE (IF Head(updates).type = "Document"
          THEN <<UpdateDocument(Head(updates))>> ELSE <<>>)
         \o CollectDocuments(Tail(updates))

\* Variant: the received documents are not written to the pending queue.
handle_pending_updates_unstaged(c, r, changed_accounts, updates) ==
    IF ~HasEof(updates)
    THEN Done(c, r, StAppendChanges(r.first_id, r.last_id, changed_accounts),
              RespContinue)
    ELSE request_updates(c, r, changed_accounts)

\* Variant: the sequence number is not advanced after a batch was staged.
handle_pending_updates_sameseq(c, r, changed_accounts, updates) ==
    LET pending_updates == CollectDocuments(updates)
        is_done == HasEof(updates)
        c1 == IF pending_updates # <<>>
              THEN StagePending(c, PendingKey(r.last_id.index, r.seq),
                                pending_updates)
              ELSE c
    IN IF ~is_done
       THEN Done(c1, r, StAppendChanges(r.first_id, r.last_id, changed_accounts),
                 RespContinue)
       ELSE request_updates(c1, r, changed_accounts)

handle_pending_updates(c, r, changed_accounts, updates) ==
    LET pending_updates == CollectDocuments(updates)
        is_done == HasEof(updates)
        stage == pending_updates # <<>>
        c1 == IF stage
              THEN StagePending(c, PendingKey(r.last_id.index, r.seq),
                                pending_updates)
              ELSE c
        r1 == [r EXCEPT !.seq = IF stage THEN @ + 1 ELSE @]
    IN IF ~is_done
       THEN Done(c1, r1, StAppendChanges(r.first_id, r.last_id, changed_accounts),
                 RespContinue)
       ELSE request_updates(c1, r1, changed_accounts)

(***************************************************************************)
(* handle_match_log, handle_synchronize_log                                *)
(***************************************************************************)
\* Variant: whenever some entry is found, the leader's id is echoed.
handle_match_log_echo(c, r, last_log) ==
    LET matched == get_prev_raft_id(c.st, last_log)
    IN IF matched # Nil
       THEN Done(c, [r EXCEPT !.up = (matched = last_log)], StSynchronize,
                 RespMatch(last_log))
       ELSE Done(c, [r EXCEPT !.up = IF IsNone(last_log) THEN TRUE ELSE @],
                 StSynchronize, RespMatch(RaftIdNone))

\* Variant: without a matching entry the up-to-date flag is left alone.
handle_match_log_keep(c, r, last_log) ==
    LET matched == get_prev_raft_id(c.st, last_log)
    IN IF matched # Nil
       THEN Done(c, [r EXCEPT !.up = (matched = last_log)], StSynchronize,
                 RespMatch(matched))
       ELSE Done(c, r, StSynchronize, RespMatch(RaftIdNone))

handle_match_log(c, r, last_log) ==
    LET matched == get_prev_raft_id(c.st, last_log)
    IN IF matched # Nil
       THEN Done(c, [r EXCEPT !.up = (matched = last_log)], StSynchronize,
                 RespMatch(matched))
       ELSE Done(c, [r EXCEPT !.up = IF IsNone(last_log) THEN TRUE ELSE @],
                 StSynchronize, RespMatch(RaftIdNone))

\* Variant: the comparison goes on after the first difference.
RECURSIVE MatchTermsAny(_, _, _)
MatchTermsAny(local, remote, matched_id) ==
    IF local = <<>> \/ remote = <<>> THEN matched_id
    ELSE MatchTermsAny(Tail(local), Tail(remote),
                       IF Head(local) = Head(remote) THEN Head(local)
                       ELSE matched_id)

\* The last position at which the two lists agree before they first differ.
RECURSIVE MatchTerms(_, _, _)
MatchTerms(local, remote, matched_id) ==
    IF local = <<>> \/ remote = <<>> THEN matched_id
    ELSE IF Head(local) = Head(remote)
         THEN MatchTerms(Tail(local), Tail(remote), Head(local))
         ELSE matched_id

handle_synchronize_log(c, r, match_terms) ==
    IF match_terms = <<>> THEN Failed(c, r)
    ELSE LET matched_id == MatchTerms(get_raft_match_terms(c.st), match_terms,
                                      RaftIdNone)
             match_indexes == get_raft_match_indexes(c.st, matched_id.index)
         IN IF IsNone(matched_id)
            THEN Done(c, r, StSynchronize, RespSynchronize(<<>>))
            ELSE IF match_indexes = {} THEN Failed(c, r)
            ELSE Done(c, r, StSynchronize,
                      RespSynchronize(SerializeBitmap(match_indexes)))

(***************************************************************************)
(* Rollback                                                                *)
(***************************************************************************)
\* The received documents written in one batch per account run.
RECURSIVE ApplyRollbackLoop(_, _, _)
ApplyRollbackLoop(c, updates, batch) ==
    IF updates = <<>>
    THEN IF batch.ops # <<>> THEN WriteDocuments(c, Nil, batch) ELSE c
    ELSE LET u == Head(updates)
         IN IF u.type # "Document"
            THEN ApplyRollbackLoop(c, Tail(updates), batch)
            ELSE LET switch == u.account_id # batch.account_id
                     c1 == IF switch /\ batch.ops # <<>>
                           THEN WriteDocuments(c, Nil, batch) ELSE c
                     b1 == IF switch THEN NewBatch(u.account_id) ELSE batch
                 IN ApplyRollbackLoop(c1, Tail(updates),
                       apply_document_update(c1.st, u.account_id, u.document_id,
                                             u.update, b1))

apply_rollback_updates(c, updates) ==
    [c |-> ApplyRollbackLoop(c, updates, NewBatch(AccountMAX)),
     is_done |-> HasEof(updates)]

\* Deletes the documents the follower inserted after the matched position.
DeleteInserts(c, a, col, inserts) ==
    LET batch == DeleteAll(NewBatch(a), col, SerializeBitmap(inserts))
    IN Wr(c, StoreWrite(c.st, batch), c.hist,
          [op |-> "delete_inserts", account_id |-> a, collection |-> col,
           document_ids |-> inserts])

\* Variant: the changes of a Thread pair are treated like any other.
RECURSIVE handle_rollback_updates_thread(_, _, _, _, _, _)
handle_rollback_updates_thread(c, r, account_id, collection, changes, updates) ==
    LET ch0 == changes
        c1 == IF ch0.inserts # {}
              THEN DeleteInserts(c, account_id, collection, ch0.inserts) ELSE c
        ch1 == [ch0 EXCEPT !.inserts = {}]
        a == IF updates # <<>> THEN apply_rollback_updates(c1, updates)
             ELSE [c |-> c1, is_done |-> TRUE]
        ch2 == IF updates # <<>>
               THEN [ch1 EXCEPT !.updates = {}, !.deletes = {}] ELSE ch1
    IN IF updates # <<>> /\ ~a.is_done
       THEN Done(a.c, r, StRollback(account_id, collection, ch1), RespContinue)
       ELSE IF ch2.deletes # {} \/ ch2.updates # {}
       THEN Done(a.c, r, StRollback(account_id, collection, ch2),
                 RespUpdate(account_id, collection, ch2))
       ELSE LET c2 == Wr(a.c, remove_rollback_change(a.c.st, account_id, collection),
                         a.c.hist,
                         [op |-> "remove_rollback", account_id |-> account_id,
                          collection |-> collection])
                next == next_rollback_change(c2.st)
            IN IF next # Nil
               THEN handle_rollback_updates_thread(c2, r, next.account_id,
                                            next.collection, next.changes, <<>>)
               ELSE IF get_last_log(c2.st) = Nil THEN Failed(c2, r)
               ELSE Done(c2, r, StSynchronize, RespMatch(get_last_log(c2.st)))

\* Variant: once the bookkeeping of the current pair is removed the follower
\* returns to Synchronize without looking for a next target.
handle_rollback_updates_single(c, r, account_id, collection, changes, updates) ==
    LET ch0 == IF collection = "Thread" THEN EmptyChanges ELSE changes
        c1 == IF ch0.inserts # {}
              THEN DeleteInserts(c, account_id, collection, ch0.inserts) ELSE c
        ch1 == [ch0 EXCEPT !.inserts = {}]
        a == IF updates # <<>> THEN apply_rollback_updates(c1, updates)
             ELSE [c |-> c1, is_done |-> TRUE]
        ch2 == IF updates # <<>>
               THEN [ch1 EXCEPT !.updates = {}, !.deletes = {}] ELSE ch1
    IN IF updates # <<>> /\ ~a.is_done
       THEN Done(a.c, r, StRollback(account_id, collection, ch1), RespContinue)
       ELSE IF ch2.deletes # {} \/ ch2.updates # {}
       THEN Done(a.c, r, StRollback(account_id, collection, ch2),
                 RespUpdate(account_id, collection, ch2))
       ELSE LET c2 == Wr(a.c, remove_rollback_change(a.c.st, account_id, collection),
                         a.c.hist,
                         [op |-> "remove_rollback", account_id |-> account_id,
                          collection |-> collection])
            IN IF get_last_log(c2.st) = Nil THEN Failed(c2, r)
               ELSE Done(c2, r, StSynchronize, RespMatch(get_last_log(c2.st)))

\* Variant: the received updates are applied before the inserts are deleted.
RECURSIVE handle_rollback_updates_late(_, _, _, _, _, _)
handle_rollback_updates_late(c, r, account_id, collection, changes, updates) ==
    LET ch0 == IF collection = "Thread" THEN EmptyChanges ELSE changes
        a == IF updates # <<>> THEN apply_rollback_updates(c, updates)
             ELSE [c |-> c, is_done |-> TRUE]
        c1 == IF ch0.inserts # {}
              THEN DeleteInserts(a.c, account_id, collection, ch0.inserts)
              ELSE a.c
        ch1 == [ch0 EXCEPT !.inserts = {}]
        ch2 == IF updates # <<>>
               THEN [ch1 EXCEPT !.updates = {}, !.deletes = {}] ELSE ch1
    IN IF updates # <<>> /\ ~a.is_done
       THEN Done(c1, r, StRollback(account_id, collection, ch1), RespContinue)
       ELSE IF ch2.deletes # {} \/ ch2.updates # {}
       THEN Done(c1, r, StRollback(account_id, collection, ch2),
                 RespUpdate(account_id, collection, ch2))
       ELSE LET c2 == Wr(c1, remove_rollback_change(c1.st, account_id, collection),
                         c1.hist,
                         [op |-> "remove_rollback", account_id |-> account_id,
                          collection |-> collection])
                next == next_rollback_change(c2.st)
            IN IF next # Nil
               THEN handle_rollback_updates_late(c2, r, next.account_id,
                                                 next.collection, next.changes,
                                                 <<>>)
               ELSE IF get_last_log(c2.st) = Nil THEN Failed(c2, r)
               ELSE Done(c2, r, StSynchronize, RespMatch(get_last_log(c2.st)))

\* Variant: the updates and deletes count as received with the first message
\* of documents.
RECURSIVE handle_rollback_updates_clear(_, _, _, _, _, _)
handle_rollback_updates_clear(c, r, account_id, collection, changes, updates) ==
    LET ch0 == IF collection = "Thread" THEN EmptyChanges ELSE changes
        c1 == IF ch0.inserts # {}
              THEN DeleteInserts(c, account_id, collection, ch0.inserts) ELSE c
        ch1 == [ch0 EXCEPT !.inserts = {}]
        a == IF updates # <<>> THEN apply_rollback_updates(c1, updates)
             ELSE [c |-> c1, is_done |-> TRUE]
        ch2 == IF updates # <<>>
               THEN [ch1 EXCEPT !.updates = {}, !.deletes = {}] ELSE ch1
    IN IF updates # <<>> /\ ~a.is_done
       THEN Done(a.c, r, StRollback(account_id, collection, ch2), RespContinue)
       ELSE IF ch2.deletes # {} \/ ch2.updates # {}
       THEN Done(a.c, r, StRollback(account_id, collection, ch2),
                 RespUpdate(account_id, collection, ch2))
       ELSE LET c2 == Wr(a.c, remove_rollback_change(a.c.st, account_id, collection),
                         a.c.hist,
                         [op |-> "remove_rollback", account_id |-> account_id,
                          collection |-> collection])
                next == next_rollback_change(c2.st)
            IN IF next # Nil
               THEN handle_rollback_updates_clear(c2, r, next.account_id,
                                                  next.collection, next.changes,
                                                  <<>>)
               ELSE IF get_last_log(c2.st) = Nil THEN Failed(c2, r)
               ELSE Done(c2, r, StSynchronize, RespMatch(get_last_log(c2.st)))

\* Variant: documents that end with Eof do not settle the updates and
\* deletes of the target.
RECURSIVE handle_rollback_updates_again(_, _, _, _, _, _)
handle_rollback_updates_again(c, r, account_id, collection, changes, updates) ==
    LET ch0 == IF collection = "Thread" THEN EmptyChanges ELSE changes
        c1 == IF ch0.inserts # {}
              THEN DeleteInserts(c, account_id, collection, ch0.inserts) ELSE c
        ch1 == [ch0 EXCEPT !.inserts = {}]
        a == IF updates # <<>> THEN apply_rollback_updates(c1, updates)
             ELSE [c |-> c1, is_done |-> TRUE]
    IN IF updates # <<>> /\ ~a.is_done
       THEN Done(a.c, r, StRollback(account_id, collection, ch1), RespContinue)
       ELSE IF ch1.deletes # {} \/ ch1.updates # {}
       THEN Done(a.c, r, StRollback(account_id, collection, ch1),
                 RespUpdate(account_id, collection, ch1))
       ELSE LET c2 == Wr(a.c, remove_rollback_change(a.c.st, account_id, collection),
                         a.c.hist,
                         [op |-> "remove_rollback", account_id |-> account_id,
                          collection |-> collection])
                next == next_rollback_change(c2.st)
            IN IF next # Nil
               THEN handle_rollback_updates_again(c2, r, next.account_id,
                                                  next.collection, next.changes,
                                                  <<>>)
               ELSE IF get_last_log(c2.st) = Nil THEN Failed(c2, r)
               ELSE Done(c2, r, StSynchronize, RespMatch(get_last_log(c2.st)))

RECURSIVE handle_rollback_updates(_, _, _, _, _, _)
handle_rollback_updates(c, r, account_id, collection, changes, updates) ==
    LET ch0 == IF collection = "Thread" THEN EmptyChanges ELSE changes
        c1 == IF ch0.inserts # {}
              THEN DeleteInserts(c, account_id, collection, ch0.inserts) ELSE c
        ch1 == [ch0 EXCEPT !.inserts = {}]
        a == IF updates # <<>> THEN apply_rollback_updates(c1, updates)
             ELSE [c |-> c1, is_done |-> TRUE]
        ch2 == IF updates # <<>>
               THEN [ch1 EXCEPT !.updates = {}, !.deletes = {}] ELSE ch1
    IN IF updates # <<>> /\ ~a.is_done
       THEN Done(a.c, r, StRollback(account_id, collection, ch1), RespContinue)
       ELSE IF ch2.deletes # {} \/ ch2.updates # {}
       THEN Done(a.c, r, StRollback(account_id, collection, ch2),
                 RespUpdate(account_id, collection, ch2))
       ELSE LET c2 == Wr(a.c, remove_rollback_change(a.c.st, account_id, collection),
                         a.c.hist,
                         [op |-> "remove_rollback", account_id |-> account_id,
                          collection |-> collection])
                next == next_rollback_change(c2.st)
            IN IF next # Nil
               THEN handle_rollback_updates(c2, r, next.account_id,
                                            next.collection, next.changes, <<>>)
               ELSE IF get_last_log(c2.st) = Nil THEN Failed(c2, r)
               ELSE Done(c2, r, StSynchronize, RespMatch(get_last_log(c2.st)))

\* Variant: the first target is handed to the leader as it was recorded.
handle_merge_log_first(c, r, matched_log) ==
    LET st1 == prepare_rollback_changes(c.st, matched_log.index)
        c1 == IF st1 # c.st
              THEN Wr(c, st1, c.hist,
                      [op |-> "prepare_rollback", index |-> matched_log.index])
              ELSE c
        next == next_rollback_change(c1.st)
    IN IF next = Nil THEN Failed(c1, r)
       ELSE Done(c1, r,
                 StRollback(next.account_id, next.collection, next.changes),
                 RespUpdate(next.account_id, next.collection, next.changes))

handle_merge_log(c, r, matched_log) ==
    LET st1 == prepare_rollback_changes(c.st, matched_log.index)
        c1 == IF st1 # c.st
              THEN Wr(c, st1, c.hist,
                      [op |-> "prepare_rollback", index |-> matched_log.index])
              ELSE c
        next == next_rollback_change(c1.st)
    IN IF next = Nil THEN Failed(c1, r)
       ELSE handle_rollback_updates(c1, r, next.account_id, next.collection,
                                    next.changes, <<>>)

(***************************************************************************)
(* Messages of the leader                                                  *)
(***************************************************************************)
Eof == [type |-> "Eof"]
LogUpdate(id, e) == [type |-> "Log", raft_id |-> id, log |-> e]
ChangeUpdate(a, col, ch) ==
    [type |-> "Change", account_id |-> a, collection |-> col, change |-> ch]
DocumentUpdate(a, d, u) ==
    [type |-> "Document", account_id |-> a, document_id |-> d, update |-> u]

Item(a, cols) ==
    [kind |-> "Item", account_id |-> a, changed_collections |-> cols]
\* The log of the leader in this term: the first entry changes the mail of
\* account 1, every later one the mail and the threads of account 2.
LeaderLog ==
    [id \in {RaftId(1, i) : i \in Indexes} |->
       IF id.index = 1 THEN Item(1, {"Mail"}) ELSE Item(2, {"Mail", "Thread"})]
\* The change records the leader streams for a collection.
ChangeValues(col) ==
    {[inserts |-> {d}, updates |-> {}, deletes |-> {}] : d \in DocIds}
    \cup (IF col = "Thread" THEN {}
          ELSE {[inserts |-> {}, updates |-> {}, deletes |-> {d}] : d \in DocIds})
\* The documents the leader sends when asked for the changes of account a;
\* no message holds the same one twice.
DocumentUpdates(a) ==
    {DocumentUpdate(a, d, u) :
       d \in DocIds,
       u \in {[kind |-> "InsertMail", value |-> "a"],
              [kind |-> "UpdateMail", value |-> "b"]}}
\* The positions of the log the leader streams in this term, and the commit
\* indexes it announces.
StreamIds == DOMAIN LeaderLog
LogIds == {RaftId(t, i) : t \in Terms, i \in Indexes}
MatchIds == LogIds \cup {RaftIdNone}
CommitIndexes == Indexes \cup {AheadIndex}

\* The collections of the entry last sent whose Change record is still due.
MissingChanges(raft, keys, last_id) ==
    IF IsNone(last_id) \/ last_id \notin DOMAIN raft THEN {}
    ELSE {col \in raft[last_id].changed_collections :
            ChangeKey(raft[last_id].account_id, col, last_id.index) \notin keys}

\* What the leader sends next in an entry stream: the Change records of the
\* entry last sent, one per changed collection, then the entry that follows
\* the ones the follower holds.
NextUpdates(raft, keys, last_id) ==
    LET missing == MissingChanges(raft, keys, last_id)
    IN IF missing # {}
       THEN LET col == CHOOSE x \in missing :
                             \A y \in missing : CollectionOrd(x) <= CollectionOrd(y)
            IN {ChangeUpdate(raft[last_id].account_id, col, ch) :
                  ch \in ChangeValues(col)}
       ELSE {LogUpdate(id, LeaderLog[id]) :
               id \in {x \in StreamIds :
                         /\ \A y \in DOMAIN raft : RaftLeq(y, x) /\ y.index < x.index
                         /\ \A i \in Indexes :
                              i < x.index => \E y \in DOMAIN raft : y.index = i}}

RECURSIVE Streams(_, _, _, _)
Streams(raft, keys, last_id, n) ==
    {<<>>} \cup
    (IF n = 0 THEN {}
     ELSE UNION {
        LET raft1 == IF u.type = "Log" THEN Put(raft, u.raft_id, u.log) ELSE raft
            last1 == IF u.type = "Log" THEN u.raft_id ELSE last_id
            keys1 == IF u.type = "Change"
                     THEN keys \cup {ChangeKey(u.account_id, u.collection,
                                               last_id.index)}
                     ELSE keys
        IN {<<u>> \o s : s \in Streams(raft1, keys1, last1, n - 1)} :
        u \in NextUpdates(raft, keys, last_id)})

\* Whether every Change record of the streamed entries has been sent, so
\* that the leader may close the stream.
RECURSIVE StreamComplete(_, _, _, _)
StreamComplete(raft, keys, last_id, body) ==
    IF body = <<>> THEN MissingChanges(raft, keys, last_id) = {}
    ELSE LET u == Head(body)
         IN StreamComplete(
               IF u.type = "Log" THEN Put(raft, u.raft_id, u.log) ELSE raft,
               IF u.type = "Change"
               THEN keys \cup {ChangeKey(u.account_id, u.collection, last_id.index)}
               ELSE keys,
               IF u.type = "Log" THEN u.raft_id ELSE last_id,
               Tail(body))

RECURSIVE DocStreams(_, _)
DocStreams(a, n) ==
    {<<>>} \cup
    (IF n = 0 THEN {}
     ELSE {t \in {<<u>> \o s : u \in DocumentUpdates(a),
                               s \in DocStreams(a, n - 1)} :
             \A i \in DOMAIN t, j \in DOMAIN t : t[i] = t[j] => i = j})

WithEof(body, eof) == IF eof THEN Append(body, Eof) ELSE body

RECURSIVE SeqsOf(_)
\* All orders in which the members of S can be listed.
SeqsOf(S) ==
    IF S = {} THEN {<<>>}
    ELSE UNION {{<<x>> \o s : s \in SeqsOf(S \ {x})} : x \in S}

ReqMatch(last_log) == [kind |-> "Match", last_log |-> last_log]
ReqSynchronize(match_terms) ==
    [kind |-> "Synchronize", match_terms |-> match_terms]
ReqMerge(matched_log) == [kind |-> "Merge", matched_log |-> matched_log]
ReqUpdate(commit_index, updates) ==
    [kind |-> "Update", commit_index |-> commit_index, updates |-> updates]

(***************************************************************************)
(* Failure detector (phi accrual)                                          *)
(***************************************************************************)
\* Number of samples of the circular window (a power of two) and its mask.
HEARTBEAT_WINDOW == 4
HEARTBEAT_WINDOW_MASK == HEARTBEAT_WINDOW - 1
HB_MAX_PAUSE_MS == 0
HB_MIN_STD_DEV == 300
HB_PHI_SUSPECT_THRESHOLD == 5
HB_PHI_CONVICT_THRESHOLD == 9

\* A u32 is held as two 16-bit halves, [hi, lo] for hi * 2^16 + lo; a time in
\* milliseconds (u128) likewise, with a hi that may be 2^16 or more.
Half == 65536
Millis(hi, lo) == [hi |-> hi, lo |-> lo]
\* `as u32`: the low 32 bits.
AsU32(d) == [hi |-> d.hi % Half, lo |-> d.lo]
\* The sum in u32, wrapped, and whether the true sum is outside u32.
AddU32(a, b) ==
    LET lo == a.lo + b.lo
        hi == a.hi + b.hi + (lo \div Half)
    IN [val |-> [hi |-> hi % Half, lo |-> lo % Half], overflow |-> hi >= Half]
SubU32(a, b) ==
    LET lo == a.lo - b.lo
        hi == a.hi - b.hi - (IF lo < 0 THEN 1 ELSE 0)
    IN [val |-> [hi |-> (hi + Half) % Half, lo |-> (lo + Half) % Half],
        overflow |-> hi < 0]
\* u32::pow(a, 2): the low 32 bits of the square; the square is outside u32
\* from a = 2^16 on.
PowU32(a) ==
    LET b1 == a.lo \div 256
        b0 == a.lo % 256
        t == 2 * b1 * b0 * 256 + b0 * b0
        \* a.lo squared, which fits
        lo2 == [hi |-> b1 * b1 + (t \div Half), lo |-> t % Half]
        \* a.hi * a.lo modulo 2^16
        cross == (a.hi * b0 + ((a.hi * b1) % 256) * 256) % Half
    IN [val |-> [hi |-> (lo2.hi + 2 * cross) % Half, lo |-> lo2.lo],
        overflow |-> a.hi > 0]

\* Peer::from(PeerInfo): a peer that was just heard of.
PeerFrom ==
    [state |-> "Alive",
     hb_window |-> [i \in 0..(HEARTBEAT_WINDOW - 1) |-> Millis(0, 0)],
     hb_window_pos |-> 0,
     hb_sum |-> Millis(0, 0),
     hb_sq_sum |-> Millis(0, 0),
     hb_is_full |-> FALSE]
\* What was last done to the peer, and how many heartbeats its window has
\* recorded (at most the size of the window).
NoGossip ==
    [action |-> "start", elapsed |-> Millis(0, 0), is_alive |-> TRUE,
     overflow_checks |-> FALSE, panicked |-> FALSE, samples |-> 0]

\* A heartbeat of the peer arrives, elapsed after the one before.  A build
\* with overflow checks panics at the first u32 operation that overflows,
\* with the fields written so far; any other build wraps.
update_heartbeat(p, elapsed, overflow_checks) ==
    LET hb_diff == AsU32(elapsed)
        pos == (p.hb_window_pos + 1) % (HEARTBEAT_WINDOW_MASK + 1)
        full == p.hb_is_full \/ (pos = 0 /\ p.hb_sum # Millis(0, 0))
        p0 == [p EXCEPT !.state = "Alive", !.hb_window_pos = pos,
                        !.hb_is_full = full]
        old == p.hb_window[pos]
        s1 == IF full THEN SubU32(p.hb_sum, old)
              ELSE [val |-> p.hb_sum, overflow |-> FALSE]
        o2 == IF full THEN PowU32(old)
              ELSE [val |-> Millis(0, 0), overflow |-> FALSE]
        q1 == IF full THEN SubU32(p.hb_sq_sum, o2.val)
              ELSE [val |-> p.hb_sq_sum, overflow |-> FALSE]
        p1 == [p0 EXCEPT !.hb_sum = s1.val]
        p2 == [p1 EXCEPT !.hb_sq_sum = q1.val]
        p3 == [p2 EXCEPT !.hb_window[pos] = hb_diff]
        s2 == AddU32(s1.val, hb_diff)
        p4 == [p3 EXCEPT !.hb_sum = s2.val]
        sq == PowU32(hb_diff)
        q2 == AddU32(q1.val, sq.val)
        p5 == [p4 EXCEPT !.hb_sq_sum = q2.val]
    IN IF ~overflow_checks THEN [peer |-> p5, panicked |-> FALSE]
       ELSE IF s1.overflow THEN [peer |-> p0, panicked |-> TRUE]
       ELSE IF o2.overflow \/ q1.overflow THEN [peer |-> p1, panicked |-> TRUE]
       ELSE IF s2.overflow THEN [peer |-> p3, panicked |-> TRUE]
       ELSE IF sq.overflow \/ q2.overflow THEN [peer |-> p4, panicked |-> TRUE]
       ELSE [peer |-> p5, panicked |-> FALSE]

\* f64::sqrt of v > 0, rounded down to an integer, by bisection in lo..hi.
RECURSIVE Sqrt(_, _, _)
Sqrt(v, lo, hi) ==
    IF lo >= hi THEN lo
    ELSE LET mid == (lo + hi + 1) \div 2
         IN IF mid * mid <= v THEN Sqrt(v, mid, hi) ELSE Sqrt(v, lo, mid - 1)

\* ln(10^threshold - 1) in units of 10^-7: phi = -log10(e / (1 + e)) is above
\* the threshold exactly when -ln(e) is above it.
LnOdds(threshold) == IF threshold = 9 THEN 207232658 ELSE 115129154

\* The number of samples the sums are divided by.
sample_size(p) ==
    IF p.hb_is_full THEN HEARTBEAT_WINDOW ELSE p.hb_window_pos + 1

\* Variant: the deviation has no floor.
PhiAboveNoFloor(p, elapsed, threshold) ==
    LET n == IF p.hb_is_full THEN HEARTBEAT_WINDOW ELSE p.hb_window_pos + 1
        hb_sum == p.hb_sum.hi * Half + p.hb_sum.lo
        hb_sq_sum == p.hb_sq_sum.hi * Half + p.hb_sq_sum.lo
        hb_diff == elapsed.hi * Half + elapsed.lo
        mean == hb_sum + n * HB_MAX_PAUSE_MS
        diff == n * hb_diff - mean
        variance == n * hb_sq_sum - mean * mean
        std_dev == IF variance <= 0 THEN 1 ELSE Sqrt(variance, 1, n * hb_sum)
        y == IF (1000 * diff) \div std_dev > 9999 THEN 9999
             ELSE (1000 * diff) \div std_dev
        exponent == y * (15976 + (70566 * ((y * y) \div 10000)) \div 10000)
    IN diff > 0 /\ exponent > LnOdds(threshold)

\* Whether the phi of check_heartbeat is above the threshold.  With n the
\* sample size, all of hb_diff - hb_mean, the variance and the deviation are
\* taken times n (resp. n * n), which leaves y as it is; y is in thousandths,
\* capped where phi is above every threshold, and -ln(e) = y * (1.5976 +
\* 0.070566 * y * y) in units of 10^-7.  The two branches of phi are one
\* function of e; for hb_diff <= hb_mean it is at most log10(2).
PhiAbove(p, elapsed, threshold) ==
    LET n == sample_size(p)
        hb_sum == p.hb_sum.hi * Half + p.hb_sum.lo
        hb_sq_sum == p.hb_sq_sum.hi * Half + p.hb_sq_sum.lo
        hb_diff == elapsed.hi * Half + elapsed.lo
        mean == hb_sum + n * HB_MAX_PAUSE_MS
        diff == n * hb_diff - mean
        variance == n * hb_sq_sum - mean * mean
        floor == n * HB_MIN_STD_DEV
        std_dev == IF variance <= floor * floor THEN floor
                   ELSE Sqrt(variance, floor, n * hb_sum)
        y == IF (1000 * diff) \div std_dev > 9999 THEN 9999
             ELSE (1000 * diff) \div std_dev
        exponent == y * (15976 + (70566 * ((y * y) \div 10000)) \div 10000)
    IN diff > 0 /\ exponent > LnOdds(threshold)

\* Variant: the suspicion threshold is looked at first.
check_heartbeat_suspect_first(p, elapsed) ==
    IF p.hb_sum = Millis(0, 0) THEN [peer |-> p, is_alive |-> FALSE]
    ELSE IF PhiAbove(p, elapsed, HB_PHI_SUSPECT_THRESHOLD)
    THEN [peer |-> [p EXCEPT !.state = "Suspected"], is_alive |-> TRUE]
    ELSE IF PhiAbove(p, elapsed, HB_PHI_CONVICT_THRESHOLD)
    THEN [peer |-> [p EXCEPT !.state = "Offline"], is_alive |-> FALSE]
    ELSE [peer |-> p, is_alive |-> TRUE]

\* A liveness check, elapsed after the last heartbeat of the peer.
check_heartbeat(p, elapsed) ==
    IF p.hb_sum = Millis(0, 0) THEN [peer |-> p, is_alive |-> FALSE]
    ELSE IF PhiAbove(p, elapsed, HB_PHI_CONVICT_THRESHOLD)
    THEN [peer |-> [p EXCEPT !.state = "Offline"], is_alive |-> FALSE]
    ELSE IF PhiAbove(p, elapsed, HB_PHI_SUSPECT_THRESHOLD)
    THEN [peer |-> [p EXCEPT !.state = "Suspected"], is_alive |-> TRUE]
    ELSE [peer |-> p, is_alive |-> TRUE]

(***************************************************************************)
(* The node: term, role and membership                                     *)
(***************************************************************************)
RespStepDown(term) == [type |-> "StepDown", term |-> term]
RespUnregisteredPeer == [type |-> "UnregisteredPeer"]

\* The role of the node: the follower of a peer, or any other role.
NotFollower == [tag |-> "Other"]
Follower(peer_id) == [tag |-> "Follower", peer_id |-> peer_id]

\* The Cluster of a node that knows no peer yet; now is the reading of its
\* clock, in ping intervals.
NewCluster ==
    [peer_id |-> 1, epoch |-> 0, generation |-> 1, term |-> 0,
     last_log_term |-> 0, last_log_index |-> 0, state |-> NotFollower,
     now |-> 0, peers |-> <<>>]
\* The last call of a handler of the node: its name and arguments, the
\* response sent on the response channel of the call (NoResponse when the
\* channel went to the follower task or was dropped), the event handed to
\* the follower task (Nil when none was), the message returned, and the
\* number of gossip messages handled so far.
NoRpc ==
    [action |-> "start", peer_id |-> 0, term |-> 0, request |-> Nil,
     response |-> NoResponse, event |-> Nil, message |-> Nil, count |-> 0]

\* Peer::from(PeerInfo), at the time now of the clock.
PeerFromInfo(info, now) ==
    [peer_id |-> info.peer_id, epoch |-> info.epoch,
     generation |-> info.generation, last_heartbeat |-> now] @@ PeerFrom

is_known_peer(c, peer_id) ==
    \E i \in DOMAIN c.peers : c.peers[i].peer_id = peer_id
log_is_behind_or_eq(c, last_log_term, last_log_index) ==
    RaftLeq(RaftId(c.last_log_term, c.last_log_index),
            RaftId(last_log_term, last_log_index))
is_following_peer(c, peer_id) == c.state = Follower(peer_id)
\* The node becomes (or stays) the follower of peer_id.
follow_leader(c, peer_id) == [c EXCEPT !.state = Follower(peer_id)]

\* What a call of follow_leader and the send that follows it may come to:
\* the event is in the channel of the follower task; the task has gone and
\* the send fails; follow_leader fails before or after it has changed the
\* role.
FollowOutcomes == {"sent", "closed", "failed", "failed_following"}

\* Variant: the log of the leader is not looked at.
handle_become_follower_any_log(c, peer_id, term, last_log, outcome) ==
    IF is_known_peer(c, peer_id)
    THEN LET c1 == IF c.term < term THEN [c EXCEPT !.term = term] ELSE c
         IN IF c1.term = term
            THEN [c |-> IF outcome = "failed" THEN c1
                        ELSE follow_leader(c1, peer_id),
                  event |-> IF outcome = "sent" THEN ReqMatch(last_log) ELSE Nil,
                  response |-> NoResponse]
            ELSE [c |-> c1, event |-> Nil, response |-> RespStepDown(c1.term)]
    ELSE [c |-> c, event |-> Nil, response |-> RespUnregisteredPeer]

handle_become_follower(c, peer_id, term, last_log, outcome) ==
    IF is_known_peer(c, peer_id)
    THEN LET c1 == IF c.term < term THEN [c EXCEPT !.term = term] ELSE c
         IN IF c1.term = term
               /\ log_is_behind_or_eq(c1, last_log.term, last_log.index)
            THEN [c |-> IF outcome = "failed" THEN c1
                        ELSE follow_leader(c1, peer_id),
                  event |-> IF outcome = "sent" THEN ReqMatch(last_log) ELSE Nil,
                  response |-> NoResponse]
            ELSE [c |-> c1, event |-> Nil, response |-> RespStepDown(c1.term)]
    ELSE [c |-> c, event |-> Nil, response |-> RespUnregisteredPeer]

\* Variant: the term of the node is set to the term of the request.
handle_append_entries_set_term(c, peer_id, term, request, open) ==
    LET c1 == [c EXCEPT !.term = term]
    IN IF is_following_peer(c1, peer_id)
       THEN [c |-> c1, event |-> IF open THEN request ELSE Nil,
             response |-> NoResponse]
       ELSE [c |-> c1, event |-> Nil, response |-> RespStepDown(c1.term)]

\* open: whether the follower task still reads its channel.
handle_append_entries(c, peer_id, term, request, open) ==
    LET c1 == IF term > c.term THEN [c EXCEPT !.term = term] ELSE c
    IN IF is_following_peer(c1, peer_id)
       THEN [c |-> c1, event |-> IF open THEN request ELSE Nil,
             response |-> NoResponse]
       ELSE [c |-> c1, event |-> Nil, response |-> RespStepDown(c1.term)]

\* update_heartbeat(peer) when the clock reads now, in ping intervals of a
\* second; the times between heartbeats are far from the range where the
\* u32 arithmetic of the window overflows.
heartbeat_at(p, now) ==
    LET elapsed == Millis(0, (now - p.last_heartbeat) * 1000)
    IN [update_heartbeat(p, elapsed, FALSE).peer EXCEPT !.last_heartbeat = now]

\* PeerStatus::from and PeerInfo::from of a peer or of the node itself: what
\* the handlers read of them.
StatusOf(p) == [peer_id |-> p.peer_id, epoch |-> p.epoch, generation |-> p.generation]
IsNotSeed(p) == p.state # "Seed"
build_peer_status(c) ==
    <<StatusOf(c)>> \o [i \in DOMAIN c.peers |-> StatusOf(c.peers[i])]
build_peer_info(c) ==
    LET known == SelectSeq(c.peers, IsNotSeed)
    IN <<StatusOf(c)>> \o [i \in DOMAIN known |-> StatusOf(known[i])]

\* Variant: a status of the recorded epoch counts as a heartbeat too.
handle_ping_peer_replay(s, peer, pos, self_id, now) ==
    IF self_id = peer.peer_id THEN s
    ELSE LET found == {i \in DOMAIN s.peers : s.peers[i].peer_id = peer.peer_id}
         IN IF found = {} THEN [s EXCEPT !.do_full_sync = TRUE]
            ELSE LET idx == CHOOSE i \in found : \A j \in found : i <= j
                     local_peer == s.peers[idx]
                     newer == peer.epoch >= local_peer.epoch
                 IN [peers |-> IF newer
                               THEN [s.peers EXCEPT ![idx] =
                                       heartbeat_at([local_peer EXCEPT
                                                       !.epoch = peer.epoch], now)]
                               ELSE s.peers,
                     do_full_sync |-> s.do_full_sync
                                      \/ (newer /\ local_peer.generation
                                                     # peer.generation),
                     source_peer_idx |-> IF pos = 1 THEN idx
                                         ELSE s.source_peer_idx]

\* One turn of the loop of handle_ping over the statuses it received; pos
\* counts from 1, source_peer_idx is 0 while there is none.
handle_ping_peer(s, peer, pos, self_id, now) ==
    IF self_id = peer.peer_id THEN s
    ELSE LET found == {i \in DOMAIN s.peers : s.peers[i].peer_id = peer.peer_id}
         IN IF found = {} THEN [s EXCEPT !.do_full_sync = TRUE]
            ELSE LET idx == CHOOSE i \in found : \A j \in found : i <= j
                     local_peer == s.peers[idx]
                     newer == peer.epoch > local_peer.epoch
                 IN [peers |-> IF newer
                               THEN [s.peers EXCEPT ![idx] =
                                       heartbeat_at([local_peer EXCEPT
                                                       !.epoch = peer.epoch], now)]
                               ELSE s.peers,
                     do_full_sync |-> s.do_full_sync
                                      \/ (newer /\ local_peer.generation
                                                     # peer.generation),
                     source_peer_idx |-> IF pos = 1 THEN idx
                                         ELSE s.source_peer_idx]

RECURSIVE handle_ping_loop(_, _, _, _, _)
handle_ping_loop(s, peers, pos, self_id, now) ==
    IF pos > Len(peers) THEN s
    ELSE handle_ping_loop(handle_ping_peer(s, peers[pos], pos, self_id, now),
                          peers, pos + 1, self_id, now)

\* The messages handle_ping returns; to is the peer whose address is used.
MessageNone == [type |-> "None"]
MessageSyncResponse(to, peers) == [type |-> "SyncResponse", to |-> to, peers |-> peers]
MessagePong(to, peers) == [type |-> "Pong", to |-> to, peers |-> peers]

handle_ping(c, peers, is_ping) ==
    IF peers = <<>> THEN [c |-> c, message |-> MessageNone]
    ELSE LET c1 == [c EXCEPT !.epoch = @ + 1]
             s == handle_ping_loop(
                      [peers |-> c1.peers,
                       do_full_sync |-> Len(c1.peers) + 1 # Len(peers),
                       source_peer_idx |-> 0],
                      peers, 1, c1.peer_id, c1.now)
             c2 == [c1 EXCEPT !.peers = s.peers]
         IN [c |-> c2,
             message |->
               IF s.source_peer_idx # 0
               THEN IF s.do_full_sync
                    THEN MessageSyncResponse(c2.peers[s.source_peer_idx].peer_id,
                                             build_peer_info(c2))
                    ELSE IF is_ping
                    THEN MessagePong(c2.peers[s.source_peer_idx].peer_id,
                                     build_peer_status(c2))
                    ELSE MessageNone
               ELSE MessageNone]

\* One turn of the loop of sync_peer_info over the infos it received.
sync_peer_info_peer(s, peer, pos, now) ==
    IF peer.peer_id # s.c.peer_id
    THEN LET peers == s.c.peers
             found == {i \in DOMAIN peers : /\ peers[i].state # "Seed"
                                            /\ peers[i].peer_id = peer.peer_id}
             idx == IF found = {} THEN Len(peers) + 1
                    ELSE CHOOSE i \in found : \A j \in found : i <= j
             seeds == \E i \in DOMAIN peers : i < idx /\ peers[i].state = "Seed"
         IN IF found = {}
            THEN [c |-> [s.c EXCEPT !.peers = Append(@, PeerFromInfo(peer, now))],
                  remove_seeds |-> s.remove_seeds \/ seeds]
            ELSE LET local_peer == peers[idx]
                     newer == peer.epoch > local_peer.epoch
                     update_peer_info ==
                         local_peer.generation # peer.generation
                         /\ (pos = 1 \/ newer)
                     p1 == IF newer
                           THEN heartbeat_at([local_peer EXCEPT
                                                !.epoch = peer.epoch], now)
                           ELSE local_peer
                     p2 == IF update_peer_info
                           THEN [p1 EXCEPT !.generation = peer.generation]
                           ELSE p1
                 IN [c |-> [s.c EXCEPT !.peers[idx] = p2],
                     remove_seeds |-> s.remove_seeds \/ seeds]
    ELSE IF peer.epoch > s.c.epoch
    THEN [s EXCEPT !.c.epoch = peer.epoch + 1]
    ELSE s

RECURSIVE sync_peer_info_loop(_, _, _, _)
sync_peer_info_loop(s, peers, pos, now) ==
    IF pos > Len(peers) THEN s
    ELSE sync_peer_info_loop(sync_peer_info_peer(s, peers[pos], pos, now),
                             peers, pos + 1, now)

sync_peer_info(c, peers) ==
    LET s == sync_peer_info_loop([c |-> c, remove_seeds |-> FALSE], peers, 1, c.now)
    IN IF s.remove_seeds
       THEN [s.c EXCEPT !.peers = SelectSeq(@, IsNotSeed)]
       ELSE s.c

(***************************************************************************)
(* The follower task                                                       *)
(***************************************************************************)
VARIABLES
    state,       \* State of the follower task
    store,       \* raft log, change records, pending queue, last-applied
                 \* marker, documents, rollback bookkeeping
    change_seq,  \* sequence number of the next staged batch
    up_to_date,  \* the node's up-to-date flag
    fate,        \* "running", "stopped" (a handler failed), "panicked"
                 \* (unreachable!), "crashed" (the process died)
    response,    \* response sent for the last event, NoResponse when none
    request,     \* the request of the last event taken from the channel
    action,      \* the arm of the dispatch that handled it
    ops,         \* the store operations of the last step, in order
    hist,        \* staged entry -> number of complete applications
    round,       \* dirty pairs of the round and the pairs merged so far
    crashes,     \* number of crashes the process may still suffer
    errors,      \* whether a store operation of a handler may fail
    channel,     \* the events waiting in the channel of the task, oldest
                 \* first; empty when the sender hands every event over as
                 \* the task asks for it
    enqueued,    \* number of events sent through the channel so far
    sent,        \* the events that came through the channel and had a
                 \* response sent on their response channel, in that order
    peer,        \* the Peer the failure detector keeps its statistics in
    gossip,      \* the last call of the detector: its name, the time it
                 \* read from the clock and its result; whether the build
                 \* checks integer overflow, and whether a call panicked
    cluster,     \* the Cluster of the node: term, role, last log, epoch and
                 \* the peers it knows
    rpc          \* the last call of a handler of the node and what it sent

vars == <<response, request, action, ops, fate, change_seq, up_to_date,
          state, store, hist, round, crashes, errors, channel, enqueued, sent,
          peer, gossip, cluster, rpc>>

\* The failure detector, which shares nothing with the follower task.
GossipVars == <<peer, gossip>>
\* The node around the follower task.
ClusterVars == <<cluster, rpc>>

\* The channel of the task and the response channels of its events.
LoopVars == <<channel, enqueued, sent>>

EmptyStore ==
    [raft |-> EmptyMap, changes |-> EmptyMap, pending |-> EmptyMap,
     last_applied |-> NoMarker, docs |-> EmptyMap, rollback |-> EmptyMap]

NoRound == [dirty |-> {}, merged |-> <<>>]

\* The locals and flags a handler works on.
Locals(first_id, last_id, commit, merged) ==
    [first_id |-> first_id, last_id |-> last_id, commit |-> commit,
     seq |-> change_seq, up |-> up_to_date, merged |-> merged]

\* Variant: the task always starts in Synchronize.
StartFollowerSynchronize(c) ==
    LET c1 == reset_uncommitted_changes(c)
        c2 == init_last_applied_index(c1)
    IN [c |-> c2, state |-> StSynchronize]

\* The start of the task in spawn_raft_follower, up to the event loop.
StartFollower(c) ==
    LET c1 == reset_uncommitted_changes(c)
        c2 == init_last_applied_index(c1)
        next == next_rollback_change(c2.st)
    IN [c |-> c2,
        state |-> IF next = Nil THEN StSynchronize
                  ELSE StRollback(next.account_id, next.collection, next.changes)]

\* A new node: empty store, the follower task has reached its event loop.
InitFaults(budget, failures) ==
    LET s == StartFollower(Ctx(EmptyStore, EmptyMap))
    IN /\ state = s.state
       /\ store = s.c.st
       /\ hist = s.c.hist
       /\ ops = <<>>
       /\ change_seq = 0
       /\ up_to_date = FALSE
       /\ fate = "running"
       /\ response = NoResponse
       /\ request = Nil
       /\ action = "start"
       /\ round = NoRound
       /\ crashes = budget
       /\ errors = failures
       /\ peer = PeerFrom
       /\ cluster = NewCluster
       /\ rpc = NoRpc
       /\ gossip = NoGossip
       /\ channel = <<>>
       /\ enqueued = 0
       /\ sent = <<>>

InitNode(budget) == InitFaults(budget, FALSE)

Init == InitNode(0)
\* The same node in an environment where the process may crash.
InitCrash == InitNode(MaxCrashes)

\* The process dies before one of the store writes of the step: what was
\* written so far stays, everything in memory is lost.
CrashAt(snap) ==
    /\ crashes > 0
    /\ store' = snap.st
    /\ hist' = snap.hist
    /\ ops' = <<>>
    /\ fate' = "crashed"
    /\ crashes' = crashes - 1
    /\ response' = NoResponse
    /\ request' = Nil
    /\ action' = "crash"
    /\ state' = StSynchronize
    /\ change_seq' = 0
    /\ up_to_date' = FALSE
    /\ round' = NoRound
    /\ UNCHANGED <<errors, LoopVars, GossipVars, ClusterVars>>

\* A store operation of the step fails (a read, a write or the dispatch of
\* the worker): the handler returns None at that point.  What was written
\* before stays, no response is sent and the event loop ends; the request
\* of the event is dropped with it.
FailAt(req, name, snap) ==
    /\ errors
    /\ fate = "running"
    /\ request' = Nil
    /\ action' = name
    /\ store' = snap.st
    /\ hist' = snap.hist
    /\ ops' = snap.ops
    /\ fate' = "stopped"
    /\ response' = NoResponse
    /\ errors' = errors
    /\ UNCHANGED <<GossipVars, ClusterVars>>
    /\ up_to_date' = (up_to_date /\ name \notin {"handle_update_log(sync)",
                                                "handle_update_log"})
    /\ UNCHANGED <<state, change_seq, round, crashes>>

\* Variant: after a failed handler the loop goes on with the next event.
CompleteRetry(res, dirty) ==
    /\ res.seq <= MaxSeq
    /\ store' = res.c.st
    /\ hist' = res.c.hist
    /\ ops' = res.c.ops
    /\ change_seq' = res.seq
    /\ up_to_date' = res.up
    /\ round' = [dirty |-> dirty, merged |-> res.merged]
    /\ crashes' = crashes
    /\ errors' = errors
    /\ UNCHANGED <<GossipVars, ClusterVars>>
    /\ fate' = "running"
    /\ IF res.ok
       THEN /\ state' = res.state
            /\ response' = res.response
       ELSE /\ state' = state
            /\ response' = NoResponse

\* The end of one iteration of the event loop: the handler returned res.
Complete(res, dirty) ==
    /\ res.seq <= MaxSeq
    /\ store' = res.c.st
    /\ hist' = res.c.hist
    /\ ops' = res.c.ops
    /\ change_seq' = res.seq
    /\ up_to_date' = res.up
    /\ round' = [dirty |-> dirty, merged |-> res.merged]
    /\ crashes' = crashes
    /\ errors' = errors
    /\ UNCHANGED <<GossipVars, ClusterVars>>
    /\ IF res.ok
       THEN /\ state' = res.state
            /\ response' = res.response
            /\ fate' = "running"
       ELSE /\ state' = state
            /\ response' = NoResponse
            /\ fate' = "stopped"

Receive(req, name) ==
    /\ fate = "running"
    /\ request' = req
    /\ action' = name

\* Variant: the newest waiting event is taken from the channel.
DequeueNewest ==
    /\ enqueued' = enqueued
    /\ IF channel = <<>> THEN UNCHANGED <<channel, sent>>
       ELSE /\ channel' = SubSeq(channel, 1, Len(channel) - 1)
            /\ sent' = IF response' = NoResponse THEN sent
                       ELSE Append(sent, channel[Len(channel)])

\* rx.recv() and response_tx.send(): the event handled is the oldest one
\* waiting, and the response of the handler goes to its response channel.
Dequeue ==
    /\ enqueued' = enqueued
    /\ IF channel = <<>> THEN UNCHANGED <<channel, sent>>
       ELSE /\ channel' = Tail(channel)
            /\ sent' = IF response' = NoResponse THEN sent
                       ELSE Append(sent, Head(channel))

\* One iteration of the event loop on request req; the process may crash or
\* a store operation may fail during it.
Handle(req, name, res, dirty) ==
    LET n == Len(res.c.trace)
    IN \E i \in (0 - (n + 1))..n :
         IF i = 0 THEN Receive(req, name) /\ Complete(res, dirty) /\ Dequeue
         ELSE IF i > 0 THEN fate = "running" /\ CrashAt(res.c.trace[i])
         ELSE /\ FailAt(req, name, IF 0 - i <= n THEN res.c.trace[0 - i]
                                   ELSE Snap(res.c))
              /\ Dequeue

MatchLog(ids) ==
    /\ state.tag = "Synchronize"
    /\ \E last_log \in ids :
         Handle(ReqMatch(last_log), "handle_match_log",
                handle_match_log(Ctx(store, hist),
                                    Locals(RaftIdNone, RaftIdNone, 0, <<>>),
                                    last_log), {})

\* The lists of term boundaries a leader may offer.
MatchTermLists ==
    {<<>>} \cup {<<a>> : a \in MatchIds}
    \cup {s \in {<<a, b>> : a \in LogIds, b \in LogIds} : s[2].term > s[1].term}

SynchronizeLog(lists) ==
    /\ state.tag = "Synchronize"
    /\ \E match_terms \in lists :
         Handle(ReqSynchronize(match_terms), "handle_synchronize_log",
                handle_synchronize_log(Ctx(store, hist),
                                          Locals(RaftIdNone, RaftIdNone, 0, <<>>),
                                          match_terms), {})

\* In the run of a node the leader of the streamed term is the peer.
MatchInSynchronize == MatchLog({RaftId(1, 1), RaftIdNone})
SynchronizeInSynchronize == SynchronizeLog({<<>>, <<RaftId(1, 1)>>})

MergeInSynchronize ==
    /\ state.tag = "Synchronize"
    /\ \E matched_log \in StreamIds \cup {RaftIdNone} :
         Handle(ReqMerge(matched_log), "handle_merge_log",
                handle_merge_log(Ctx(store, hist),
                                    Locals(RaftIdNone, RaftIdNone, 0, <<>>),
                                    matched_log), {})

\* The accounts and pairs the HashMap holds after the updates of a message.
ChangedAfter(changed_accounts, updates) ==
    UpdateLogLoop([first_id |-> RaftIdNone, last_id |-> RaftIdNone,
                   changed_accounts |-> changed_accounts, raft |-> EmptyMap,
                   changes |-> EmptyMap, written |-> FALSE],
                  updates).changed_accounts
PairsOf(changed_accounts) ==
    UNION {{PairKey(a, col) : col \in changed_accounts[a]} :
             a \in DOMAIN changed_accounts}

\* Variant: the arms leave the up-to-date flag as it is.
UpdateLogKeepFlag(first_id, last_id, changed_accounts, name) ==
    \E body \in Streams(store.raft, DOMAIN store.changes, last_id, MaxUpdates),
       eof \in BOOLEAN :
      LET updates == WithEof(body, eof)
          is_done == eof \/ updates = <<>>
          after == ChangedAfter(changed_accounts, updates)
      IN /\ eof => StreamComplete(store.raft, DOMAIN store.changes, last_id, body)
         /\ \E commit_index \in (IF is_done THEN CommitIndexes ELSE {1}),
               order \in (IF is_done THEN SeqsOf(DOMAIN after) ELSE {<<>>}) :
              Handle(ReqUpdate(commit_index, updates), name,
                     handle_update_log(
                           Ctx(store, hist),
                           first_id, last_id,
                           Locals(first_id, last_id, commit_index, <<>>),
                           changed_accounts, updates, order),
                        IF is_done THEN PairsOf(after) ELSE {})

\* The two arms that call handle_update_log.
UpdateLog(first_id, last_id, changed_accounts, name) ==
    \E body \in Streams(store.raft, DOMAIN store.changes, last_id, MaxUpdates),
       eof \in BOOLEAN :
      LET updates == WithEof(body, eof)
          is_done == eof \/ updates = <<>>
          after == ChangedAfter(changed_accounts, updates)
      IN /\ eof => StreamComplete(store.raft, DOMAIN store.changes, last_id, body)
         /\ \E commit_index \in (IF is_done THEN CommitIndexes ELSE {1}),
               order \in (IF is_done THEN SeqsOf(DOMAIN after) ELSE {<<>>}) :
              Handle(ReqUpdate(commit_index, updates), name,
                     handle_update_log(
                           Ctx(store, hist),
                           first_id, last_id,
                           [Locals(first_id, last_id, commit_index, <<>>)
                              EXCEPT !.up = FALSE],
                           changed_accounts, updates, order),
                        IF is_done THEN PairsOf(after) ELSE {})

UpdateInSynchronize ==
    /\ state.tag = "Synchronize"
    /\ UpdateLog(RaftIdNone, RaftIdNone, EmptyMap, "handle_update_log(sync)")

UpdateInAppendEntries ==
    /\ state.tag = "AppendEntries"
    /\ UpdateLog(state.first_id, state.last_id, state.changed_accounts,
                 "handle_update_log")

UpdateInAppendChanges ==
    /\ state.tag = "AppendChanges"
    /\ \E body \in DocStreams(round.merged[Len(round.merged)].account_id,
                              MaxUpdates),
          eof \in BOOLEAN :
       \E commit_index \in (IF eof THEN CommitIndexes ELSE {1}) :
         Handle(ReqUpdate(commit_index, WithEof(body, eof)),
                "handle_pending_updates",
                handle_pending_updates(
                      Ctx(store, hist),
                      Locals(state.first_id, state.last_id, commit_index,
                             round.merged),
                      state.changed_accounts, WithEof(body, eof)),
                   round.dirty)

UpdateInRollback ==
    /\ state.tag = "Rollback"
    /\ \E body \in DocStreams(state.account_id, MaxUpdates), eof \in BOOLEAN :
         Handle(ReqUpdate(1, WithEof(body, eof)), "handle_rollback_updates",
                handle_rollback_updates(
                      Ctx(store, hist), Locals(RaftIdNone, RaftIdNone, 0, <<>>),
                      state.account_id, state.collection, state.changes,
                      WithEof(body, eof)), {})

\* Any other request while a rollback is pending resumes the rollback.
ResumeRollback ==
    /\ state.tag = "Rollback"
    /\ \E req \in {ReqMatch(RaftIdNone), ReqSynchronize(<<>>),
                   ReqMerge(RaftIdNone)} :
         Handle(req, "handle_rollback_updates(resume)",
                handle_rollback_updates(
                      Ctx(store, hist), Locals(RaftIdNone, RaftIdNone, 0, <<>>),
                      state.account_id, state.collection, state.changes, <<>>),
                   {})

\* Variant: the request is dropped and the follower keeps running.
InvalidStateIgnored ==
    /\ state.tag \in {"AppendEntries", "AppendChanges"}
    /\ \E req \in {ReqMatch(RaftIdNone), ReqSynchronize(<<>>),
                   ReqMerge(RaftIdNone)} :
         /\ Receive(req, "unreachable")
         /\ fate' = "running"
         /\ response' = NoResponse
         /\ ops' = <<>>
         /\ UNCHANGED <<state, store, change_seq, up_to_date, hist, round,
                        crashes, errors, GossipVars, ClusterVars>>
         /\ Dequeue

\* (_, _) => unreachable!("Invalid state.")
InvalidState ==
    /\ state.tag \in {"AppendEntries", "AppendChanges"}
    /\ \E req \in {ReqMatch(RaftIdNone), ReqSynchronize(<<>>),
                   ReqMerge(RaftIdNone)} :
         /\ Receive(req, "unreachable")
         /\ fate' = "panicked"
         /\ response' = NoResponse
         /\ ops' = <<>>
         /\ UNCHANGED <<state, store, change_seq, up_to_date, hist, round,
                        crashes, errors, GossipVars, ClusterVars>>
         /\ Dequeue

\* A new follower task is spawned after the previous one ended.
Restart ==
    /\ fate # "running"
    /\ LET s == StartFollower(Ctx(store, hist))
       IN \E i \in 0..Len(s.c.trace) :
            IF i = 0
            THEN /\ state' = s.state
                 /\ store' = s.c.st
                 /\ hist' = s.c.hist
                 /\ ops' = s.c.ops
                 /\ change_seq' = 0
                 /\ up_to_date' = (up_to_date /\ fate # "crashed")
                 /\ fate' = "running"
                 /\ response' = NoResponse
                 /\ round' = NoRound
                 /\ crashes' = crashes
                 /\ request' = Nil
                 /\ action' = "start"
                 /\ UNCHANGED <<errors, LoopVars, GossipVars, ClusterVars>>
            ELSE CrashAt(s.c.trace[i])

Next ==
    \/ MatchInSynchronize
    \/ SynchronizeInSynchronize
    \/ MergeInSynchronize
    \/ UpdateInSynchronize
    \/ UpdateInAppendEntries
    \/ UpdateInAppendChanges
    \/ UpdateInRollback
    \/ ResumeRollback
    \/ InvalidState
    \/ Restart

Spec == Init /\ [][Next]_vars

\* A follower holding any log of at most two terms, matched and synchronized
\* by a leader with any log.
LocalLogs ==
    {l \in [Indexes -> Terms \cup {0}] :
       \A i \in Indexes, j \in Indexes : (i < j /\ l[i] # 0 /\ l[j] # 0) => l[i] <= l[j]}
InitLog ==
    \E l \in LocalLogs, up \in BOOLEAN :
      LET raft == [r \in {RaftId(l[i], i) : i \in {x \in Indexes : l[x] # 0}} |->
                     Item(1, {"Mail"})]
          s == StartFollower(Ctx([EmptyStore EXCEPT !.raft = raft], EmptyMap))
      IN /\ state = s.state
         /\ store = s.c.st
         /\ hist = s.c.hist
         /\ ops = <<>>
         /\ change_seq = 0
         /\ up_to_date = up
         /\ fate = "running"
         /\ response = NoResponse
         /\ request = Nil
         /\ action = "start"
         /\ round = NoRound
         /\ crashes = 0
         /\ errors = FALSE
         /\ peer = PeerFrom
         /\ cluster = NewCluster
         /\ rpc = NoRpc
         /\ gossip = NoGossip
         /\ channel = <<>>
         /\ enqueued = 0
         /\ sent = <<>>
MatchAnyLog == MatchLog(MatchIds)
SynchronizeAnyLog == SynchronizeLog(MatchTermLists)
NextLog == MatchAnyLog \/ SynchronizeAnyLog
SpecLog == InitLog /\ [][NextLog]_vars
SpecCrash == InitCrash /\ [][Next]_vars

\* The same node with a store whose operations may fail.
InitError == InitFaults(0, TRUE)
SpecError == InitError /\ [][Next]_vars

\* The cluster sends an event to the task: it waits in the channel.
SendEvent ==
    /\ fate = "running"
    /\ enqueued < MaxEvents
    /\ Len(channel) < MaxBuffered
    /\ enqueued' = enqueued + 1
    /\ channel' = Append(channel, enqueued + 1)
    /\ UNCHANGED <<state, store, change_seq, up_to_date, fate, response,
                   request, action, ops, hist, round, crashes, errors, sent,
                   GossipVars, ClusterVars>>

\* The task of a node whose events wait in the channel until the task takes
\* them: every iteration of the loop handles the event rx.recv() returns.
NextLoop ==
    \/ SendEvent
    \/ (channel # <<>> /\ MatchInSynchronize)
    \/ (channel # <<>> /\ SynchronizeInSynchronize)
    \/ (channel # <<>> /\ MergeInSynchronize)
    \/ (channel # <<>> /\ UpdateInSynchronize)
    \/ (channel # <<>> /\ UpdateInAppendEntries)
    \/ (channel # <<>> /\ UpdateInAppendChanges)
    \/ (channel # <<>> /\ UpdateInRollback)
    \/ (channel # <<>> /\ ResumeRollback)
    \/ (channel # <<>> /\ InvalidState)
SpecLoop == Init /\ [][NextLoop]_vars

(***************************************************************************)
(* apply_pending_updates on its own: a store with any staged entries, any  *)
(* last-applied marker and a log with Item and Snapshot entries, to which  *)
(* the appliers are applied.                                               *)
(***************************************************************************)
Snapshot(groups) == [kind |-> "Snapshot", changed_accounts |-> groups]

StagedKeys == {PendingKey(1, 0), PendingKey(1, 1), PendingKey(2, 2)}
\* What the follower stages: the documents of one message of the leader (no
\* document twice), or the deletions of one pair.
StagedBatches ==
    {<<UpdateDocument(DocumentUpdate(1, 1, [kind |-> "InsertMail", value |-> "a"]))>>,
     <<UpdateDocument(DocumentUpdate(1, 1, [kind |-> "UpdateMail", value |-> "b"]))>>,
     <<UpdateDocument(DocumentUpdate(2, 1, [kind |-> "InsertMail", value |-> "a"])),
       UpdateDocument(DocumentUpdate(1, 1, [kind |-> "UpdateMail", value |-> "b"]))>>,
     <<DeleteDocuments(1, "Mail", {1})>>}
StagedQueues ==
    UNION {[K -> StagedBatches] : K \in SUBSET StagedKeys}

\* The logs of the store: empty, an Item entry followed by a Snapshot entry,
\* or a Snapshot entry followed by an Item entry of the next term, with the
\* change records the entries name.
StoredLogs ==
    {[raft |-> EmptyMap, changes |-> EmptyMap],
     [raft |-> [r \in {RaftId(1, 1), RaftId(1, 2)} |->
                  IF r.index = 1 THEN Item(1, {"Mail", "Thread"})
                  ELSE Snapshot({[collections |-> {"Mail"},
                                  accounts |-> {1, 2}]})],
      changes |-> [k \in {ChangeKey(1, "Mail", 1), ChangeKey(1, "Thread", 1),
                          ChangeKey(1, "Mail", 2), ChangeKey(2, "Mail", 2)} |->
                     [inserts |-> {1}, updates |-> {}, deletes |-> {}]]],
     [raft |-> [r \in {RaftId(1, 1), RaftId(2, 2)} |->
                  IF r.index = 1 THEN Snapshot({[collections |-> {"Mail"},
                                                 accounts |-> {1}]})
                  ELSE Item(2, {"Mail", "Thread"})],
      changes |-> [k \in {ChangeKey(1, "Mail", 1), ChangeKey(2, "Mail", 2),
                          ChangeKey(2, "Thread", 2)} |->
                     [inserts |-> {1}, updates |-> {}, deletes |-> {}]]]}

ApplyCall(apply_up_to, do_reset) ==
    [kind |-> "Apply", apply_up_to |-> apply_up_to, do_reset |-> do_reset]

InitApply ==
    \E q \in StagedQueues, l \in StoredLogs,
       m \in {NoMarker, IndexMAX} \cup Indexes,
       docs \in {EmptyMap, [k \in {DocKey(1, "Mail", 1)} |-> "a"]} :
      /\ store = [raft |-> l.raft, changes |-> l.changes, pending |-> q,
                  last_applied |-> m, docs |-> docs, rollback |-> EmptyMap]
      /\ hist = [k \in DOMAIN q |-> 0]
      /\ state = StSynchronize
      /\ ops = <<>>
      /\ change_seq = 0
      /\ up_to_date = FALSE
      /\ fate = "running"
      /\ response = NoResponse
      /\ request = Nil
      /\ action = "start"
      /\ round = NoRound
      /\ crashes = 0
      /\ errors = FALSE
      /\ peer = PeerFrom
      /\ cluster = NewCluster
      /\ rpc = NoRpc
      /\ gossip = NoGossip
      /\ channel = <<>>
      /\ enqueued = 0
      /\ sent = <<>>

\* The store after a call of an applier; the task is not involved.
Called(call, name, c) ==
    /\ request' = call
    /\ action' = name
    /\ store' = c.st
    /\ hist' = c.hist
    /\ ops' = c.ops
    /\ UNCHANGED <<state, change_seq, up_to_date, fate, response, round,
                   crashes, errors, LoopVars, GossipVars, ClusterVars>>

\* apply_pending_updates(target, false)
ApplyUpTo ==
    \E target \in Indexes :
      Called(ApplyCall(target, FALSE), "apply_pending_updates",
             apply_pending_updates(Ctx(store, hist), target, FALSE).c)

\* apply_pending_updates(LogIndex::MAX, true)
ApplyCommitted ==
    Called(ApplyCall(IndexMAX, TRUE), "apply_committed_updates",
           apply_committed_updates(Ctx(store, hist)).c)

\* The documents of one staged entry are written and the entry stays in the
\* queue: what apply_pending_updates has done when it is interrupted before
\* the deletion of the entry.
ApplyStaged ==
    \E key \in DOMAIN store.pending :
      /\ hist[key] < MaxApplies
      /\ LET c == ApplyBatchUpdates(Ctx(store, hist), key, store.pending[key],
                                    NewBatch(AccountMAX))
         IN Called([kind |-> "Staged", key |-> key], "apply_staged",
                   [c EXCEPT !.hist = Applied(@, key)])

NextApply == ApplyUpTo \/ ApplyCommitted \/ ApplyStaged
SpecApply == InitApply /\ [][NextApply]_vars

TypeOK ==
    /\ state.tag \in {"Synchronize", "AppendEntries", "AppendChanges", "Rollback"}
    /\ fate \in {"running", "stopped", "panicked", "crashed"}
    /\ change_seq \in 0..MaxSeq
    /\ up_to_date \in BOOLEAN
    /\ crashes \in 0..MaxCrashes
    /\ errors \in BOOLEAN
    /\ enqueued \in 0..MaxEvents
    /\ Len(channel) <= MaxBuffered
    /\ store.last_applied \in {NoMarker} \cup (0..IndexMAX)

(***************************************************************************)
(* Properties                                                              *)
(***************************************************************************)

C2_ApplyOnlyCommitted ==
    (fate = "running" /\ response.type = "Commit") =>
        \A i \in DOMAIN ops :
            /\ ops[i].op \in {"set_last_applied", "write", "delete_pending"} =>
                 response.commit_index <= request.commit_index
            /\ ops[i].op = "set_last_applied" =>
                 ops[i].index = response.commit_index
            /\ ops[i].op \in {"write", "delete_pending"} =>
                 /\ ops[i].key.index <= response.commit_index
                 /\ ops[i].key.index <= request.commit_index

\* A round ends below the leader's commit index and applies a staged entry.
C2_Witness ==
    /\ fate = "running"
    /\ response.type = "Commit"
    /\ response.commit_index < request.commit_index
    /\ \E i \in DOMAIN ops : ops[i].op = "delete_pending"

\* C3: the dispatch on (state, request): Synchronize accepts Match,
\* Synchronize, Merge and Update; AppendEntries and AppendChanges accept only
\* Update; Rollback accepts every request, and one that is not Update has the
\* outcome of an Update without updates.  Match, Synchronize or Merge in
\* AppendEntries or AppendChanges stops the follower without a reply and
\* without effect; no other pair does.
C3_TransitionTable ==
    [][action' \notin {"start", "crash"} =>
         LET t == state.tag
             k == request'.kind
             empty == handle_rollback_updates(
                          Ctx(store, hist),
                          Locals(RaftIdNone, RaftIdNone, 0, <<>>),
                          state.account_id, state.collection, state.changes,
                          <<>>)
         IN /\ fate = "running"
            /\ (t = "Synchronize" /\ k = "Match") =>
                  action' = "handle_match_log"
            /\ (t = "Synchronize" /\ k = "Synchronize") =>
                  action' = "handle_synchronize_log"
            /\ (t = "Synchronize" /\ k = "Merge") =>
                  action' = "handle_merge_log"
            /\ (t = "Synchronize" /\ k = "Update") =>
                  action' = "handle_update_log(sync)"
            /\ (t = "AppendEntries" /\ k = "Update") =>
                  action' = "handle_update_log"
            /\ (t = "AppendChanges" /\ k = "Update") =>
                  action' = "handle_pending_updates"
            /\ (t = "Rollback" /\ k = "Update") =>
                  action' = "handle_rollback_updates"
            /\ (t = "Rollback" /\ k # "Update") =>
                  /\ action' = "handle_rollback_updates(resume)"
                  /\ fate' = "running" =>
                       /\ state' = empty.state
                       /\ response' = empty.response
                       /\ store' = empty.c.st
            /\ fate' = "panicked" <=>
                  (t \in {"AppendEntries", "AppendChanges"} /\ k # "Update")
            /\ fate' = "panicked" =>
                  /\ response' = NoResponse
                  /\ action' = "unreachable"
                  /\ UNCHANGED <<state, store>>]_vars

\* A Merge request has stopped a follower that was in AppendChanges.
C3_Witness ==
    /\ fate = "panicked"
    /\ state.tag = "AppendChanges"
    /\ request.kind = "Merge"
    /\ response = NoResponse

C5_CommitWhenDrained ==
    [][(/\ action' \in {"handle_update_log(sync)", "handle_update_log",
                        "handle_pending_updates"}
        /\ fate' = "running"
        /\ state'.tag = "Synchronize") =>
         LET logs == SelectSeq(request'.updates, LAMBDA u : u.type = "Log")
             last_id == IF logs # <<>> THEN logs[Len(logs)].raft_id
                        ELSE IF state.tag = "Synchronize" THEN RaftIdNone
                        ELSE state.last_id
         IN /\ response' = RespCommit(last_id.index)
            /\ up_to_date' <=> (last_id.index = request'.commit_index)]_vars

\* A round that went through AppendChanges ends exactly at the leader's
\* commit index: Commit is sent and the node is up to date.
C5_Witness ==
    /\ action = "handle_pending_updates"
    /\ fate = "running"
    /\ response.type = "Commit"
    /\ response.commit_index = request.commit_index
    /\ up_to_date

\* C6 as stated: an Update handled in Synchronize or AppendEntries whose
\* updates list is not terminated by Eof leaves the follower in
\* AppendEntries with the reply Continue.
C6_ContinueWithoutEof ==
    [][(/\ action' \in {"handle_update_log(sync)", "handle_update_log"}
        /\ fate' = "running"
        /\ ~HasEof(request'.updates)) =>
         /\ state'.tag = "AppendEntries"
         /\ response' = RespContinue]_vars

\* C6, amended: an Update handled in Synchronize or AppendEntries whose
\* updates list is not empty and contains no Eof leaves the follower in
\* AppendEntries, carrying first_id, last_id and the accumulated
\* changed_accounts, with the reply Continue and without any merge; merged
\* changes are requested only on a message that contains Eof or whose
\* updates list is empty.
C6_ContinueUntilDone ==
    [][(/\ action' \in {"handle_update_log(sync)", "handle_update_log"}
        /\ fate' = "running") =>
         LET updates == request'.updates
             logs == SelectSeq(updates, LAMBDA u : u.type = "Log")
             was == state.tag = "AppendEntries"
             last_id == IF logs # <<>> THEN logs[Len(logs)].raft_id
                        ELSE IF was THEN state.last_id ELSE RaftIdNone
             first_id == IF was /\ ~IsNone(state.first_id) THEN state.first_id
                         ELSE IF logs # <<>> THEN logs[1].raft_id
                         ELSE RaftIdNone
             pairs == (IF was THEN PairsOf(state.changed_accounts) ELSE {})
                      \cup {PairKey(updates[i].account_id, updates[i].collection) :
                              i \in {j \in DOMAIN updates :
                                       updates[j].type = "Change"}}
         IN IF updates # <<>> /\ ~HasEof(updates)
            THEN /\ state'.tag = "AppendEntries"
                 /\ state'.first_id = first_id
                 /\ state'.last_id = last_id
                 /\ PairsOf(state'.changed_accounts) = pairs
                 /\ response' = RespContinue
                 /\ \A i \in DOMAIN ops' : ops'[i].op = "write_log"
            ELSE /\ state'.tag \in {"AppendChanges", "Synchronize"}
                 /\ response'.type \in {"Update", "Commit"}]_vars

\* An Update without Eof was handled in AppendEntries: the follower is still
\* in AppendEntries with accumulated changed accounts and has replied
\* Continue.
C6_Witness ==
    /\ action = "handle_update_log"
    /\ fate = "running"
    /\ request.updates # <<>>
    /\ ~HasEof(request.updates)
    /\ state.tag = "AppendEntries"
    /\ state.changed_accounts # EmptyMap
    /\ response = RespContinue

\* C7: after the entry stream has ended, every dirty pair of the round whose
\* collection is not Thread is merged exactly once, one pair per Update
\* reply, before Commit is sent: the merged pairs never repeat, are dirty
\* pairs, together with the pairs left in the worklist of AppendChanges they
\* are all the dirty pairs, and at Commit they are all of them.
C7_MergedOnce ==
    LET m == round.merged
        real(S) == {p \in S : p.collection # "Thread"}
        left == IF state.tag = "AppendChanges"
                THEN UNION {{PairKey(state.changed_accounts[i].account_id, col) :
                               col \in state.changed_accounts[i].collections} :
                              i \in DOMAIN state.changed_accounts}
                ELSE {}
    IN /\ \A i \in DOMAIN m, j \in DOMAIN m : m[i] = m[j] => i = j
       /\ Range(m) \subseteq real(round.dirty)
       /\ (fate = "running" /\ response.type = "Commit") =>
             Range(m) = real(round.dirty)
       /\ (fate = "running" /\ state.tag = "AppendChanges") =>
             /\ Range(m) \cup real(left) = real(round.dirty)
             /\ Range(m) \cap left = {}
             /\ response.type \in {"Update", "Continue"}
             /\ response.type = "Update" =>
                  PairKey(response.account_id, response.collection) = m[Len(m)]

\* A round with two dirty pairs, one of which needed documents from the
\* leader, has ended with Commit.
C7_Witness ==
    /\ action = "handle_pending_updates"
    /\ fate = "running"
    /\ response.type = "Commit"
    /\ Len(round.merged) = 2

\* C8 as stated: in AppendChanges the Document updates of a message are
\* staged in the pending queue as UpdateDocument entries before the reply
\* and are not applied to the live store in that step; without Eof the
\* state (worklist included) is unchanged and the reply is Continue, with
\* Eof the draining resumes.
C8_StagedNotApplied ==
    [][(action' = "handle_pending_updates" /\ fate' = "running") =>
         LET updates == request'.updates
             docs == CollectDocuments(updates)
             key == PendingKey(state.last_id.index, change_seq)
             staged == {i \in DOMAIN ops' :
                          ops'[i] = [op |-> "stage", key |-> key,
                                     updates |-> docs]}
             applied == {i \in DOMAIN ops' :
                           /\ ops'[i].op \in {"write", "delete_pending"}
                           /\ ops'[i].key = key}
         IN /\ docs # <<>> => staged # {}
            /\ \A i \in DOMAIN docs : docs[i].type = "UpdateDocument"
            /\ docs # <<>> => applied = {}
            /\ ~HasEof(updates) => (state' = state /\ response' = RespContinue)
            /\ HasEof(updates) => response'.type \in {"Update", "Commit"}]_vars

\* C8, amended: in AppendChanges the Document updates of a message are
\* staged in the pending queue as UpdateDocument entries before the reply;
\* they are applied to the live store in that step only when the message
\* has Eof, the worklist drains in that step and last_id.index is at most
\* the leader's commit index, and then from the queue, after the staging.
\* Without Eof the state (worklist included) is unchanged and the reply is
\* Continue, with Eof the draining resumes.
C8_StagedBeforeApplied ==
    [][(action' = "handle_pending_updates" /\ fate' = "running") =>
         LET updates == request'.updates
             docs == CollectDocuments(updates)
             key == PendingKey(state.last_id.index, change_seq)
             staged == {i \in DOMAIN ops' :
                          ops'[i] = [op |-> "stage", key |-> key,
                                     updates |-> docs]}
             applied == {i \in DOMAIN ops' :
                           /\ ops'[i].op \in {"write", "delete_pending"}
                           /\ ops'[i].key = key}
         IN /\ docs # <<>> => staged # {}
            /\ \A i \in DOMAIN docs : docs[i].type = "UpdateDocument"
            /\ (docs # <<>> /\ applied = {}) =>
                  (key \in DOMAIN store'.pending /\ store'.pending[key] = docs)
            /\ (docs # <<>> /\ applied # {}) =>
                  /\ HasEof(updates)
                  /\ response' = RespCommit(state.last_id.index)
                  /\ state.last_id.index <= request'.commit_index
                  /\ \A i \in staged, j \in applied : i < j
            /\ ~HasEof(updates) => (state' = state /\ response' = RespContinue)
            /\ HasEof(updates) => response'.type \in {"Update", "Commit"}]_vars

\* Documents received in AppendChanges without Eof: they are in the pending
\* queue, the follower is still in AppendChanges and has replied Continue.
C8_Witness ==
    /\ action = "handle_pending_updates"
    /\ fate = "running"
    /\ state.tag = "AppendChanges"
    /\ response = RespContinue
    /\ \E i \in DOMAIN ops :
         /\ ops[i].op = "stage"
         /\ ops[i].key \in DOMAIN store.pending
         /\ ops[i].updates # <<>>
         /\ ops[i].updates[1].type = "UpdateDocument"

\* C9 as stated: after a Merge handled successfully in Synchronize there is
\* rollback bookkeeping for every pair changed after matched_log.index and
\* the follower is in Rollback for the first pending target.
C9_RollbackFirstTarget ==
    (action = "handle_merge_log" /\ fate = "running") =>
        LET after == {PairKey(k.account_id, k.collection) :
                        k \in {x \in DOMAIN store.changes :
                                 x.index > request.matched_log.index}}
        IN /\ after \subseteq DOMAIN store.rollback
           /\ state.tag = "Rollback"
           /\ PairKey(state.account_id, state.collection) \in after
           /\ \A p \in after :
                PairLeq(PairKey(state.account_id, state.collection), p)

\* C9, amended: after a Merge handled successfully in Synchronize the
\* inserts of every target before the first one with outstanding updates or
\* deletes have been deleted and the bookkeeping of those targets removed.
\* The follower is in Rollback for that first target with outstanding
\* updates or deletes (its inserts cleared, bookkeeping left for it and for
\* every later pair changed after matched_log.index) and has replied Update
\* for it; or, when no target has outstanding updates or deletes, no
\* bookkeeping is left, the follower is in Synchronize and has replied Match
\* with its last log.
C9_RollbackOutstandingTarget ==
    (action = "handle_merge_log" /\ fate = "running") =>
        LET after == {PairKey(k.account_id, k.collection) :
                        k \in {x \in DOMAIN store.changes :
                                 x.index > request.matched_log.index}}
        IN \/ /\ state.tag = "Rollback"
              /\ state.collection # "Thread"
              /\ state.changes.inserts = {}
              /\ state.changes.updates # {} \/ state.changes.deletes # {}
              /\ response = RespUpdate(state.account_id, state.collection,
                                       state.changes)
              /\ LET cur == PairKey(state.account_id, state.collection)
                 IN /\ cur \in after
                    /\ DOMAIN store.rollback =
                          {p \in after : PairLeq(cur, p)}
           \/ /\ state.tag = "Synchronize"
              /\ store.rollback = EmptyMap
              /\ response = RespMatch(get_last_log(store))

\* A Merge has left the follower in Rollback for a target with outstanding
\* deletes, with bookkeeping for that target and for a later one.
C9_Witness ==
    /\ action = "handle_merge_log"
    /\ fate = "running"
    /\ state.tag = "Rollback"
    /\ state.changes.deletes # {}
    /\ response.type = "Update"
    /\ Cardinality(DOMAIN store.rollback) = 2

\* C10: in Rollback with inserts recorded for a collection other than
\* Thread, the first store operation of the next event deletes exactly
\* those documents, before any received update is written, before the
\* bookkeeping is touched and before the reply; the inserts are cleared in
\* the state that follows, and without a received update for them the
\* documents are gone.
C10_InsertsDeletedFirst ==
    [][(/\ state.tag = "Rollback"
        /\ state.collection # "Thread"
        /\ state.changes.inserts # {}
        /\ action' \in {"handle_rollback_updates",
                        "handle_rollback_updates(resume)"}) =>
         /\ ops' # <<>> =>
               ops'[1] = [op |-> "delete_inserts",
                          account_id |-> state.account_id,
                          collection |-> state.collection,
                          document_ids |-> state.changes.inserts]
         /\ fate' = "running" =>
               /\ ops' # <<>>
               /\ response' # NoResponse
               /\ state'.tag = "Rollback" => state'.changes.inserts = {}
               /\ (request'.kind # "Update"
                   \/ CollectDocuments(request'.updates) = <<>>) =>
                     \A d \in state.changes.inserts :
                        DocKey(state.account_id, state.collection, d)
                           \notin DOMAIN store'.docs]_vars

\* An event was handled in Rollback starting with recorded inserts: they
\* were deleted first, then a received document was written.
C10_Witness ==
    /\ action = "handle_rollback_updates"
    /\ fate = "running"
    /\ Len(ops) >= 2
    /\ ops[1].op = "delete_inserts"
    /\ ops[2].op = "write"

C12_InitialState ==
    [][action' = "start" =>
         LET pairs == DOMAIN store.rollback
         IN /\ fate' = "running"
            /\ store'.rollback = store.rollback
            /\ (state'.tag = "Rollback") <=> (pairs # {})
            /\ pairs = {} => state' = StSynchronize
            /\ pairs # {} =>
                 LET first == CHOOSE p \in pairs : \A q \in pairs : PairLeq(p, q)
                 IN state' = StRollback(first.account_id, first.collection,
                                        store.rollback[first])]_vars

\* A task has started in Rollback: the process had crashed while rollback
\* bookkeeping was in the store.
C12_Witness ==
    /\ action = "start"
    /\ fate = "running"
    /\ state.tag = "Rollback"
    /\ store.rollback # EmptyMap
    /\ crashes < MaxCrashes

\* C13: in Synchronize, Synchronize{match_terms} with a non-empty list is
\* answered with Synchronize{match_indexes}: with n the length of the longest
\* common prefix of the local list of term boundaries and match_terms,
\* matched_id is the n-th local boundary (none when n = 0, that is when the
\* first elements differ); match_indexes is the serialized set of the local
\* indexes of the term of matched_id, and is empty when matched_id is none.
\* The state stays Synchronize and the store is not written.
C13_SynchronizeLog ==
    (action = "handle_synchronize_log" /\ fate = "running") =>
        LET local == get_raft_match_terms(store)
            remote == request.match_terms
            m == IF Len(local) <= Len(remote) THEN Len(local) ELSE Len(remote)
            agree == {k \in 0..m : \A i \in 1..k : local[i] = remote[i]}
            n == CHOOSE k \in agree : \A j \in agree : j <= k
            matched_id == IF n = 0 THEN RaftIdNone ELSE local[n]
            indexes == {r.index : r \in {x \in DOMAIN store.raft :
                                           x.term = matched_id.term}}
        IN /\ remote # <<>>
           /\ state.tag = "Synchronize"
           /\ ops = <<>>
           /\ response.type = "Synchronize"
           /\ IsNone(matched_id) => response.match_indexes = <<>>
           /\ ~IsNone(matched_id) =>
                /\ matched_id \in DOMAIN store.raft
                /\ Range(response.match_indexes) = indexes
                /\ Len(response.match_indexes) = Cardinality(indexes)
                /\ \A i \in 1..(Len(response.match_indexes) - 1) :
                     response.match_indexes[i] < response.match_indexes[i + 1]

\* The two lists agree at the first boundary and differ at the second: the
\* reply holds the local indexes of the first term.
C13_Witness ==
    /\ action = "handle_synchronize_log"
    /\ fate = "running"
    /\ Len(request.match_terms) = 2
    /\ Len(get_raft_match_terms(store)) = 2
    /\ get_raft_match_terms(store)[1] = request.match_terms[1]
    /\ get_raft_match_terms(store)[2] # request.match_terms[2]
    /\ response = RespSynchronize(<<request.match_terms[1].index>>)

\* C14: whenever a handler fails (an empty match_terms list in Synchronize,
\* a failed store operation or worker dispatch, a failed serialization) no
\* response is sent for that event and the event loop ends: the task handles
\* no later event, the only step left is the start of a new task.  What the
\* handler wrote before the failure stays in the store.
C14_FailureEndsLoop ==
    [][/\ (action' = "handle_synchronize_log"
           /\ request' # Nil
           /\ request'.match_terms = <<>>) =>
             (fate' = "stopped" /\ store' = store)
       /\ (fate' = "stopped" /\ action' # "start") =>
             /\ fate = "running"
             /\ response' = NoResponse
             /\ sent' = sent
             /\ state' = state
       /\ (fate' = "running" /\ action' \notin {"start", "crash"}) =>
             response' # NoResponse
       /\ fate # "running" => action' = "start"]_vars

\* A store operation failed after the handler had written to the store: the
\* write stays, no response is sent and the task has stopped.
C14_Witness ==
    /\ fate = "stopped"
    /\ errors
    /\ request = Nil
    /\ response = NoResponse
    /\ \E i \in DOMAIN ops : ops[i].op = "stage"
    /\ store.pending # EmptyMap

\* C15: within one follower task the events are handled one at a time in
\* the order of their arrival.  The events waiting in the channel are the
\* newest ones, in the order they were sent; every step of the task takes
\* the oldest of them, performs all the store operations of its handling
\* and sends exactly one response on its response channel (none when the
\* handler fails, which ends the task) before the next one is taken, so the
\* responses are sent in the order of arrival, one per event; a step that
\* sends an event to the task touches the channel only, and the state of
\* the follower changes in the steps of the task only.
C15_OneEventAtATime ==
    [][LET taken == enqueued - Len(channel)
           Fifo ==
               /\ channel' = [i \in 1..Len(channel') |->
                                enqueued' - Len(channel') + i]
               /\ \A i \in DOMAIN sent', j \in DOMAIN sent' :
                    i < j => sent'[i] < sent'[j]
               /\ \A i \in DOMAIN sent' : sent'[i] <= enqueued' - Len(channel')
               /\ fate' = "running" => sent' = [i \in 1..Len(sent') |-> i]
               /\ Len(sent') = enqueued' - Len(channel')
                               - (IF fate' = "running" THEN 0 ELSE 1)
       IN /\ Fifo
          /\ Len(channel') > Len(channel) =>
               /\ channel' = Append(channel, enqueued + 1)
               /\ UNCHANGED <<state, store, change_seq, up_to_date, fate,
                              response, request, ops, hist, sent>>
          /\ Len(channel') <= Len(channel) =>
               /\ channel # <<>>
               /\ fate = "running"
               /\ channel' = Tail(channel)
               /\ enqueued' = enqueued
               /\ fate' = "running" =>
                    (response' # NoResponse
                     /\ sent' = Append(sent, taken + 1))
               /\ fate' # "running" =>
                    (response' = NoResponse /\ sent' = sent)]_vars

\* Two events have been answered while two more were already waiting in the
\* channel.
C15_Witness ==
    /\ fate = "running"
    /\ sent = <<1, 2>>
    /\ channel = <<3, 4>>
    /\ state.tag = "AppendEntries"

\* The documents after a sequence of staged batches has taken effect, one
\* update after the other.
UpdateEffect(docs, u) ==
    IF u.type = "DeleteDocuments"
    THEN Del(docs, {DocKey(u.account_id, u.collection, d) : d \in u.document_ids})
    ELSE LET k == DocKey(u.account_id,
                         IF u.update.kind = "UpdateMailbox" THEN "Mailbox"
                         ELSE "Mail", u.document_id)
         IN IF u.update.kind = "UpdateMail" /\ k \notin DOMAIN docs THEN docs
            ELSE Put(docs, k, u.update.value)
RECURSIVE BatchEffect(_, _)
BatchEffect(docs, updates) ==
    IF updates = <<>> THEN docs
    ELSE BatchEffect(UpdateEffect(docs, Head(updates)), Tail(updates))
RECURSIVE SequentialDocs(_, _)
SequentialDocs(docs, batches) ==
    IF batches = <<>> THEN docs
    ELSE SequentialDocs(BatchEffect(docs, Head(batches)), Tail(batches))

\* C16: after apply_pending_updates(target, false) every staged entry with
\* index <= target has been applied, in key order, and deleted from the
\* queue (each entry's documents are written before it is deleted and after
\* the entry before it is deleted); the last-applied marker is target; every
\* staged entry with index > target is still in the queue with the same
\* content and has not been applied; the raft log, the change records and
\* the rollback bookkeeping are as before.
C16_ApplyUpToTarget ==
    [][(action' = "apply_pending_updates" /\ ~request'.do_reset) =>
         LET target == request'.apply_up_to
             low == {k \in DOMAIN store.pending : k.index <= target}
             high == (DOMAIN store.pending) \ low
             order == SortPending(low)
             dels == SelectSeq(ops', LAMBDA o : o.op = "delete_pending")
             pos(k) == CHOOSE i \in DOMAIN ops' :
                          ops'[i].op = "delete_pending" /\ ops'[i].key = k
         IN /\ store'.last_applied = target
            /\ DOMAIN store'.pending = high
            /\ \A k \in high : /\ store'.pending[k] = store.pending[k]
                               /\ hist'[k] = hist[k]
            /\ [i \in DOMAIN dels |-> dels[i].key] = order
            /\ \A i \in DOMAIN dels : dels[i].applied = hist[dels[i].key] + 1
            /\ \A i \in DOMAIN ops' :
                 ops'[i].op = "write" =>
                   /\ ops'[i].key \in low
                   /\ i < pos(ops'[i].key)
                   /\ \A k \in low :
                        (k # ops'[i].key /\ PendingLeq(k, ops'[i].key)) =>
                           pos(k) < i
            /\ store'.docs =
                 SequentialDocs(store.docs,
                                [i \in DOMAIN order |-> store.pending[order[i]]])
            /\ store'.raft = store.raft
            /\ store'.changes = store.changes
            /\ store'.rollback = store.rollback]_vars

\* apply_pending_updates(1, false) has applied and deleted the two entries
\* staged at index 1 and left the entry staged at index 2 in the queue.
C16_Witness ==
    /\ action = "apply_pending_updates"
    /\ request.apply_up_to = 1
    /\ store.last_applied = 1
    /\ DOMAIN store.pending = {PendingKey(2, 2)}
    /\ Len(SelectSeq(ops, LAMBDA o : o.op = "delete_pending")) = 2
    /\ \E i \in DOMAIN ops : ops[i].op = "write"

\* C17: apply_pending_updates(LogIndex::MAX, true) with a last-applied marker
\* m in the store leaves the queue empty and the marker deleted; no staged
\* entry with index > m is applied (the documents are those of the entries
\* up to m, none when m is LogIndex::MAX); every raft entry with index > m
\* and every change record with index > m is gone, and when m is an index
\* the entries and records up to m are as before.
C17_ResetDropsUncommitted ==
    [][(action' = "apply_committed_updates" /\ store.last_applied # NoMarker) =>
         LET m == store.last_applied
             low == IF m = IndexMAX THEN {}
                    ELSE {k \in DOMAIN store.pending : k.index <= m}
             high == (DOMAIN store.pending) \ low
             order == SortPending(low)
         IN /\ store'.last_applied = NoMarker
            /\ store'.pending = EmptyMap
            /\ \A i \in DOMAIN ops' :
                 /\ ops'[i].op \in {"write", "delete_pending"} =>
                      ops'[i].key \in low
                 /\ ops'[i].op = "reset" =>
                      ops'[i].dropped =
                        {[key |-> k, applied |-> hist[k]] : k \in high}
            /\ store'.docs =
                 SequentialDocs(store.docs,
                                [i \in DOMAIN order |-> store.pending[order[i]]])
            /\ \A r \in DOMAIN store'.raft : r.index <= m
            /\ \A k \in DOMAIN store'.changes : k.index <= m
            /\ m # IndexMAX =>
                 /\ \A r \in DOMAIN store.raft :
                      r.index <= m => /\ r \in DOMAIN store'.raft
                                      /\ store'.raft[r] = store.raft[r]
                 /\ \A k \in DOMAIN store.changes :
                      k.index <= m => /\ k \in DOMAIN store'.changes
                                      /\ store'.changes[k] = store.changes[k]
            /\ store'.rollback = store.rollback]_vars

\* A reset with marker 1 has dropped a staged entry of index 2 and deleted
\* the raft entry of index 2 with its change records, and kept the entry of
\* index 1.
C17_Witness ==
    /\ action = "apply_committed_updates"
    /\ \E i \in DOMAIN ops :
         /\ ops[i].op = "reset"
         /\ \E d \in ops[i].dropped : d.key.index = 2
         /\ \E r \in ops[i].raft : r.index = 2
    /\ \E i \in DOMAIN ops : ops[i].op = "delete_pending"
    /\ DOMAIN store.raft # {}
    /\ DOMAIN store.changes = {ChangeKey(1, "Mail", 1)}
    /\ store.pending = EmptyMap
    /\ store.last_applied = NoMarker

\* C18: within the lifetime of a follower task every staged batch gets a new
\* key: the k-th batch a step stages has the sequence number change_seq + k - 1
\* and a key that is neither in the queue before the step nor staged earlier
\* in the step, and change_seq advances by the number of batches staged, so
\* every key in the queue of a running task has a sequence number below
\* change_seq.  Batches are applied in the order of their keys: of two
\* batches with the same index the one staged first (lower sequence number)
\* is applied first, and no batch is applied while one staged before it at
\* the same index is still in the queue.
C18_DistinctPendingKeys ==
    [][LET staged == SelectSeq(ops', LAMBDA o : o.op = "stage")
           applied == SelectSeq(ops', LAMBDA o : o.op = "delete_pending")
       IN /\ fate = "running" =>
               \A i \in DOMAIN staged :
                  /\ staged[i].key.seq = change_seq + (i - 1)
                  /\ staged[i].key \notin DOMAIN store.pending
                  /\ \A j \in 1..(i - 1) : staged[j].key # staged[i].key
          /\ (fate = "running" /\ fate' = "running") =>
               change_seq' = change_seq + Len(staged)
          /\ fate' = "running" =>
               \A k \in DOMAIN store'.pending : k.seq < change_seq'
          /\ \A i \in DOMAIN applied :
               /\ \A j \in 1..(i - 1) :
                    applied[j].key.index = applied[i].key.index =>
                      applied[j].key.seq < applied[i].key.seq
               /\ \A k \in DOMAIN store'.pending :
                    k.index = applied[i].key.index => k.seq > applied[i].key.seq
      ]_vars

\* One step has applied two batches staged at the same index, the one with
\* sequence number 0 before the one with sequence number 1.
C18_Witness ==
    /\ fate = "running"
    /\ change_seq = 2
    /\ \E i, j \in DOMAIN ops :
         /\ i < j
         /\ ops[i].op = "delete_pending" /\ ops[j].op = "delete_pending"
         /\ ops[i].key.index = ops[j].key.index
         /\ ops[i].key.seq = 0 /\ ops[j].key.seq = 1
         /\ ops[i].applied = 1 /\ ops[j].applied = 1

C21_MatchNoneOnEmptyLog ==
    (/\ action = "handle_match_log"
     /\ fate = "running"
     /\ IsNone(request.last_log)
     /\ DOMAIN store.raft = {}) =>
        /\ up_to_date
        /\ response = RespMatch(RaftIdNone)
        /\ state = StSynchronize

\* Match{none} has been answered on an empty local log.
C21_Witness ==
    /\ action = "handle_match_log"
    /\ fate = "running"
    /\ request = ReqMatch(RaftIdNone)
    /\ DOMAIN store.raft = {}
    /\ up_to_date
    /\ response = RespMatch(RaftIdNone)

\* C29: after Match{last_log} was handled the node is marked up-to-date only
\* if the replied match_log equals last_log; when last_log is not none and the
\* local log has no entry equal to it (an empty local log included) the flag
\* is false after the reply, whatever it was before.
C29_UpToDateOnlyOnMatch ==
    (action = "handle_match_log" /\ fate = "running") =>
        /\ up_to_date => response.match_log = request.last_log
        /\ (~IsNone(request.last_log)
            /\ request.last_log \notin DOMAIN store.raft) => ~up_to_date

\* C22: changes of the Thread collection produce nothing.  Merging them
\* gives empty inserts, updates and deletes for every account and range; no
\* step merges a Thread pair, asks the leader for the changes of one, stages
\* a pending update for one or deletes documents of one; and when a rollback
\* step ends in Synchronize or asks the leader for a later pair, the
\* bookkeeping of the Thread pairs before that pair has been removed.
C22_ThreadProducesNothing ==
    [][/\ \A a \in Accounts, from \in Indexes \cup {0}, to \in Indexes :
            merge_changes(store', a, "Thread", from, to) = EmptyChanges
       /\ \A i \in DOMAIN ops' :
            /\ ops'[i].op \in {"merge_changes", "delete_inserts"} =>
                  ops'[i].collection # "Thread"
            /\ ops'[i].op = "stage" =>
                  \A j \in DOMAIN ops'[i].updates :
                     ops'[i].updates[j].type = "DeleteDocuments" =>
                        ops'[i].updates[j].collection # "Thread"
       /\ response'.type = "Update" => response'.collection # "Thread"
       /\ (/\ action' \in {"handle_merge_log", "handle_rollback_updates",
                           "handle_rollback_updates(resume)"}
           /\ fate' = "running"
           /\ response'.type \in {"Update", "Match"}) =>
            \A p \in DOMAIN store'.rollback :
               p.collection = "Thread" =>
                  /\ state'.tag = "Rollback"
                  /\ PairLeq(PairKey(state'.account_id, state'.collection), p)
      ]_vars

\* A rollback step has removed the bookkeeping of a Thread pair that had
\* recorded inserts, without deleting a document for it.
C22_Witness ==
    /\ action \in {"handle_merge_log", "handle_rollback_updates",
                   "handle_rollback_updates(resume)"}
    /\ fate = "running"
    /\ \E i \in DOMAIN ops :
         /\ ops[i].op = "remove_rollback"
         /\ ops[i].collection = "Thread"
    /\ \E k \in DOMAIN store.changes : k.collection = "Thread"
    /\ \A p \in DOMAIN store.rollback : p.collection # "Thread"

(***************************************************************************)
(* The merged changes calculator on any sequence of change records         *)
(***************************************************************************)
\* The document ids the folded change records name.
MergeDocs == {1, 2}
RawChanges ==
    [inserts : SUBSET MergeDocs, updates : SUBSET MergeDocs,
     deletes : SUBSET MergeDocs]
\* A store holding any sequence of change records of the pair (1, Mail), one
\* record per index.
InitMerge ==
    \E n \in 0..MaxRecords : \E recs \in [1..n -> RawChanges] :
      /\ store = [EmptyStore EXCEPT !.changes =
                    [k \in {ChangeKey(1, "Mail", i) : i \in 1..n} |-> recs[k.index]]]
      /\ state = StSynchronize
      /\ hist = EmptyMap
      /\ ops = <<>>
      /\ change_seq = 0
      /\ up_to_date = FALSE
      /\ fate = "running"
      /\ response = NoResponse
      /\ request = Nil
      /\ action = "start"
      /\ round = NoRound
      /\ crashes = 0
      /\ errors = FALSE
      /\ peer = PeerFrom
      /\ cluster = NewCluster
      /\ rpc = NoRpc
      /\ gossip = NoGossip
      /\ channel = <<>>
      /\ enqueued = 0
      /\ sent = <<>>
\* The calculator is asked, once per drawn store, for the net changes of the
\* pair over (from, to]; it reads the store and leaves it alone.
MergeStored ==
    \E from \in 0..MaxRecords, to \in 0..MaxRecords :
      /\ action = "start"
      /\ action' = "merge_changes"
      /\ request' = [type |-> "Merge", from |-> from, to |-> to]
      /\ response' = [type |-> "Merged",
                      changes |-> merge_changes(store, 1, "Mail", from, to)]
      /\ UNCHANGED <<state, store, change_seq, up_to_date, fate, ops, hist,
                     round, crashes, errors, channel, enqueued, sent,
                     GossipVars, ClusterVars>>
NextMerge == MergeStored
SpecMerge == InitMerge /\ [][NextMerge]_vars

\* The sets of a merged result share no id.
PairwiseDisjoint(m) ==
    /\ m.inserts \cap m.updates = {}
    /\ m.inserts \cap m.deletes = {}
    /\ m.updates \cap m.deletes = {}

NoReuseInRange(from, to) ==
    \A j \in (from + 1)..to :
      ChangeKey(1, "Mail", j) \in DOMAIN store.changes =>
        LET ch == store.changes[ChangeKey(1, "Mail", j)]
            before == merge_changes(store, 1, "Mail", from, j - 1)
        IN /\ (ch.inserts \cup ch.updates) \cap before.deletes = {}
           /\ ch.inserts \cap before.updates = {}

HbIntervals ==
    {Millis(0, 0), Millis(0, 1000), Millis(0, 65535), Millis(1, 0),
     Millis(65536, 1000)}
\* Heartbeats of a peer that pings at a steady rate, and the times after
\* which its liveness is checked.
SteadyIntervals == {Millis(0, 0), Millis(0, 100), Millis(0, 200), Millis(0, 1000)}
CheckDelays ==
    {Millis(0, 0), Millis(0, 100), Millis(0, 200), Millis(0, 1000),
     Millis(0, 2000), Millis(0, 2500), Millis(0, 10000)}

InitHb ==
    \E overflow_checks \in BOOLEAN :
      /\ peer = PeerFrom
      /\ cluster = NewCluster
      /\ rpc = NoRpc
      /\ gossip = [NoGossip EXCEPT !.overflow_checks = overflow_checks]
      /\ state = StSynchronize
      /\ store = EmptyStore
      /\ hist = EmptyMap
      /\ ops = <<>>
      /\ change_seq = 0
      /\ up_to_date = FALSE
      /\ fate = "running"
      /\ response = NoResponse
      /\ request = Nil
      /\ action = "start"
      /\ round = NoRound
      /\ crashes = 0
      /\ errors = FALSE
      /\ channel = <<>>
      /\ enqueued = 0
      /\ sent = <<>>

\* A ping of the peer is handled, elapsed after its last heartbeat.
ReceivePing(intervals) ==
    /\ ~gossip.panicked
    /\ \E elapsed \in intervals :
         LET r == update_heartbeat(peer, elapsed, gossip.overflow_checks)
         IN /\ peer' = r.peer
            /\ gossip' = [gossip EXCEPT !.action = "update_heartbeat",
                                        !.elapsed = elapsed,
                                        !.panicked = r.panicked,
                                        !.samples = IF @ < HEARTBEAT_WINDOW
                                                    THEN @ + 1 ELSE @]
    /\ UNCHANGED <<state, store, change_seq, up_to_date, fate, response,
                   request, action, ops, hist, round, crashes, errors,
                   channel, enqueued, sent, ClusterVars>>
\* The liveness of the peer is checked, elapsed after its last heartbeat.
CheckLiveness ==
    /\ ~gossip.panicked
    /\ \E elapsed \in CheckDelays :
         LET r == check_heartbeat(peer, elapsed)
         IN /\ peer' = r.peer
            /\ gossip' = [gossip EXCEPT !.action = "check_heartbeat",
                                        !.elapsed = elapsed,
                                        !.is_alive = r.is_alive]
    /\ UNCHANGED <<state, store, change_seq, up_to_date, fate, response,
                   request, action, ops, hist, round, crashes, errors,
                   channel, enqueued, sent, ClusterVars>>

HeartbeatAny == ReceivePing(HbIntervals)
NextHb == HeartbeatAny
SpecHb == InitHb /\ [][NextHb]_vars

HeartbeatSteady == ReceivePing(SteadyIntervals)
NextPhi == HeartbeatSteady \/ CheckLiveness
SpecPhi == InitHb /\ [][NextPhi]_vars

RECURSIVE SumOf(_, _)
SumOf(f, S) ==
    IF S = {} THEN 0
    ELSE LET x == CHOOSE y \in S : TRUE IN f[x] + SumOf(f, S \ {x})

\* C25: after a heartbeat was handled the peer is Alive, the slot of the
\* window holds the time since the heartbeat before, and hb_sum and hb_sq_sum
\* are the sum and the sum of the squares of the samples of the window; no
\* u32 operation overflowed on the way.
C25_SumsMatchWindow ==
    gossip.action = "update_heartbeat" =>
        LET win == peer.hb_window
            slots == DOMAIN win
            lo == SumOf([i \in slots |-> win[i].lo], slots)
            hi == SumOf([i \in slots |-> win[i].hi], slots) + (lo \div Half)
            sq == [i \in slots |-> PowU32(win[i]).val]
            sqlo == SumOf([i \in slots |-> sq[i].lo], slots)
            sqhi == SumOf([i \in slots |-> sq[i].hi], slots) + (sqlo \div Half)
        IN /\ ~gossip.panicked
           /\ peer.state = "Alive"
           /\ win[peer.hb_window_pos] = gossip.elapsed
           /\ peer.hb_sum = Millis(hi, lo % Half)
           /\ \A i \in slots : win[i].hi = 0
           /\ peer.hb_sq_sum = Millis(sqhi, sqlo % Half)

\* C26 (as stated): a liveness check sets the peer Offline and reports it
\* not alive exactly when phi is above the conviction threshold, sets it
\* Suspected and reports it alive exactly when phi is above the suspicion
\* threshold only, and otherwise reports it alive and leaves the state as it
\* is; it never sets a peer Alive.
C26_ExactlyOnThresholds ==
    [][gossip'.action = "check_heartbeat" =>
         LET convict == PhiAbove(peer, gossip'.elapsed, HB_PHI_CONVICT_THRESHOLD)
             suspect == PhiAbove(peer, gossip'.elapsed, HB_PHI_SUSPECT_THRESHOLD)
         IN /\ gossip'.is_alive <=> ~convict
            /\ peer'.state = (IF convict THEN "Offline"
                              ELSE IF suspect THEN "Suspected" ELSE peer.state)
            /\ peer' = [peer EXCEPT !.state = peer'.state]
            /\ peer'.state = "Alive" => peer.state = "Alive"]_vars

\* C26 (amended): for a peer with hb_sum = 0 (no heartbeat yet, or only
\* heartbeats 0 ms apart) a liveness check reports not alive and changes
\* nothing, phi is not looked at.  For any other peer it sets the state
\* Offline and reports not alive exactly when phi is above the conviction
\* threshold, sets it Suspected and reports alive exactly when phi is above
\* the suspicion threshold only, and otherwise reports alive and leaves the
\* state as it is.  It never sets a peer Alive: a heartbeat does.
C26_ThresholdsWithSamples ==
    [][(/\ gossip'.action = "check_heartbeat" =>
            LET convict == PhiAbove(peer, gossip'.elapsed, HB_PHI_CONVICT_THRESHOLD)
                suspect == PhiAbove(peer, gossip'.elapsed, HB_PHI_SUSPECT_THRESHOLD)
            IN /\ peer.hb_sum = Millis(0, 0) =>
                    (peer' = peer /\ ~gossip'.is_alive)
               /\ peer.hb_sum # Millis(0, 0) =>
                    /\ gossip'.is_alive <=> ~convict
                    /\ peer'.state = (IF convict THEN "Offline"
                                      ELSE IF suspect THEN "Suspected"
                                      ELSE peer.state)
               /\ peer' = [peer EXCEPT !.state = peer'.state]
               /\ peer'.state = "Alive" => peer.state = "Alive"
        /\ (gossip'.action = "update_heartbeat" /\ ~gossip'.panicked) =>
              peer'.state = "Alive")]_vars
\* A check found phi between the two thresholds: the peer is Suspected and
\* reported alive.
C26_Witness ==
    /\ gossip.action = "check_heartbeat"
    /\ peer.hb_sum # Millis(0, 0)
    /\ peer.state = "Suspected"
    /\ gossip.is_alive
    /\ PhiAbove(peer, gossip.elapsed, HB_PHI_SUSPECT_THRESHOLD)
    /\ ~PhiAbove(peer, gossip.elapsed, HB_PHI_CONVICT_THRESHOLD)

\* The window is full of heartbeats that came interval apart, the last one
\* just handled.
SteadyAt(interval) ==
    /\ gossip.action = "update_heartbeat"
    /\ peer.hb_is_full
    /\ \A i \in DOMAIN peer.hb_window : peer.hb_window[i] = interval

StoredChanges ==
    {[inserts |-> {1}, updates |-> {}, deletes |-> {}],
     [inserts |-> {}, updates |-> {1}, deletes |-> {}],
     [inserts |-> {}, updates |-> {}, deletes |-> {1}],
     [inserts |-> {1}, updates |-> {}, deletes |-> {2}]}
(***************************************************************************)
(* The end of a round whose entries are stored                             *)
(***************************************************************************)
\* A follower in AppendEntries that has received and written the two
\* entries of the leader with their change records; the leader has nothing
\* left to stream but Eof.
InitStage ==
    \E c1 \in StoredChanges, c2 \in StoredChanges :
      /\ store = [raft |-> LeaderLog,
                  changes |-> [k \in {ChangeKey(1, "Mail", 1),
                                      ChangeKey(2, "Mail", 2),
                                      ChangeKey(2, "Thread", 2)} |->
                                 IF k.collection = "Thread"
                                 THEN [inserts |-> {1}, updates |-> {},
                                       deletes |-> {}]
                                 ELSE IF k.account_id = 1 THEN c1 ELSE c2],
                  pending |-> EmptyMap, last_applied |-> NoMarker,
                  docs |-> EmptyMap, rollback |-> EmptyMap]
      /\ hist = EmptyMap
      /\ state = StAppendEntries(RaftId(1, 1), RaftId(1, 2),
                                 [a \in {1, 2} |->
                                    IF a = 1 THEN {"Mail"} ELSE {"Mail", "Thread"}])
      /\ ops = <<>>
      /\ change_seq = 0
      /\ up_to_date = FALSE
      /\ fate = "running"
      /\ response = RespContinue
      /\ request = Nil
      /\ action = "start"
      /\ round = NoRound
      /\ crashes = 0
      /\ errors = FALSE
      /\ channel = <<>>
      /\ enqueued = 0
      /\ sent = <<>>
      /\ peer = PeerFrom
      /\ cluster = NewCluster
      /\ rpc = NoRpc
      /\ gossip = NoGossip

NextStage ==
    \/ UpdateInAppendEntries
    \/ UpdateInAppendChanges

SpecStage == InitStage /\ [][NextStage]_vars

\* C31: in a step that merges dirty pairs, a pair whose merged changes hold
\* deletes has exactly one DeleteDocuments entry staged for it, with those
\* ids, under (last_id.index, the sequence number of that moment), and a pair
\* without deletes has none; an Update reply carries no deletes; a pair with
\* deletes only is not replied for: another pair is merged after it in the
\* same step, or the step ends with Commit.
C31_DeletesStagedNotReported ==
    [][(/\ action' \in {"handle_update_log(sync)", "handle_update_log",
                        "handle_pending_updates"}
        /\ fate' = "running"
        /\ request' # Nil) =>
         LET first_id == IF state.tag \in {"AppendEntries", "AppendChanges"}
                         THEN state.first_id ELSE RaftIdNone
             last_id == IF state.tag \in {"AppendEntries", "AppendChanges"}
                        THEN state.last_id ELSE RaftIdNone
             f == IF action' = "handle_pending_updates"
                  THEN [first_id |-> first_id, last_id |-> last_id]
                  ELSE UpdateLogLoop([first_id |-> first_id, last_id |-> last_id,
                                      changed_accounts |-> EmptyMap,
                                      raft |-> store.raft,
                                      changes |-> store.changes,
                                      written |-> FALSE], request'.updates)
             done == IF action' = "handle_pending_updates"
                     THEN Len(round.merged) ELSE 0
             new == (done + 1)..Len(round'.merged)
             merged(i) == merge_changes(store', round'.merged[i].account_id,
                                        round'.merged[i].collection,
                                        f.first_id.index, f.last_id.index)
             stages == {j \in DOMAIN ops' : ops'[j].op = "stage"}
             staged(i) == {j \in stages :
                             /\ Len(ops'[j].updates) = 1
                             /\ ops'[j].updates[1].type = "DeleteDocuments"
                             /\ ops'[j].updates[1].account_id =
                                  round'.merged[i].account_id
                             /\ ops'[j].updates[1].collection =
                                  round'.merged[i].collection}
         IN /\ \A i \in new :
                 /\ merged(i).deletes = {} => staged(i) = {}
                 /\ merged(i).deletes # {} =>
                      /\ Cardinality(staged(i)) = 1
                      /\ \A j \in staged(i) :
                           /\ ops'[j].updates[1].document_ids = merged(i).deletes
                           /\ ops'[j].key =
                                PendingKey(f.last_id.index,
                                           change_seq + Cardinality({k \in stages : k < j}))
                 /\ (merged(i).inserts = {} /\ merged(i).updates = {}) =>
                      (i < Len(round'.merged) \/ response'.type = "Commit")
            /\ response'.type = "Update" =>
                 /\ response'.changes.deletes = <<>>
                 /\ new # {}
                 /\ LET m == merged(Len(round'.merged))
                    IN /\ m.inserts \cup m.updates # {}
                       /\ response'.changes.inserts = SerializeBitmap(m.inserts)
                       /\ response'.changes.updates = SerializeBitmap(m.updates)]_vars
\* A round ended with Commit after the deletes of its only merged pair were
\* staged.
C31_Witness ==
    /\ action \in {"handle_update_log(sync)", "handle_update_log",
                  "handle_pending_updates"}
    /\ fate = "running"
    /\ response.type = "Commit"
    /\ \E j \in DOMAIN ops :
         /\ ops[j].op = "stage"
         /\ ops[j].updates[1].type = "DeleteDocuments"
         /\ ops[j].updates[1].document_ids # {}

\* C32: a step of the update handlers replies Update only on entering (or
\* staying in) AppendChanges, and ends in AppendChanges only with an Update,
\* or with Continue for documents that are not yet complete;
\* the Update names the pair merged last, whose merged inserts or updates are
\* not both empty, while every pair merged before it in the step had neither;
\* and no pair merged in the round is left in the worklist that AppendChanges
\* carries.
C32_UpdateIffInsertsOrUpdates ==
    [][(/\ action' \in {"handle_update_log(sync)", "handle_update_log",
                        "handle_pending_updates"}
        /\ fate' = "running"
        /\ request' # Nil) =>
         LET first_id == IF state.tag \in {"AppendEntries", "AppendChanges"}
                         THEN state.first_id ELSE RaftIdNone
             last_id == IF state.tag \in {"AppendEntries", "AppendChanges"}
                        THEN state.last_id ELSE RaftIdNone
             f == IF action' = "handle_pending_updates"
                  THEN [first_id |-> first_id, last_id |-> last_id]
                  ELSE UpdateLogLoop([first_id |-> first_id, last_id |-> last_id,
                                      changed_accounts |-> EmptyMap,
                                      raft |-> store.raft,
                                      changes |-> store.changes,
                                      written |-> FALSE], request'.updates)
             done == IF action' = "handle_pending_updates"
                     THEN Len(round.merged) ELSE 0
             n == Len(round'.merged)
             wanted(i) ==
                 LET m == merge_changes(store', round'.merged[i].account_id,
                                        round'.merged[i].collection,
                                        f.first_id.index, f.last_id.index)
                 IN m.inserts # {} \/ m.updates # {}
             left == IF state'.tag = "AppendChanges"
                     THEN UNION {{PairKey(state'.changed_accounts[k].account_id, col) :
                                    col \in state'.changed_accounts[k].collections} :
                                   k \in DOMAIN state'.changed_accounts}
                     ELSE {}
         IN /\ state'.tag = "AppendChanges" =>
                 \/ response'.type = "Update"
                 \/ /\ response'.type = "Continue"
                    /\ action' = "handle_pending_updates"
                    /\ ~HasEof(request'.updates)
                    /\ state' = state
                    /\ n = done
            /\ response'.type = "Update" =>
                 /\ state'.tag = "AppendChanges"
                 /\ n > done
                 /\ wanted(n)
                 /\ response'.account_id = round'.merged[n].account_id
                 /\ response'.collection = round'.merged[n].collection
                 /\ state'.first_id = f.first_id
                 /\ state'.last_id = f.last_id
            /\ \A i \in (done + 1)..n :
                 wanted(i) => (i = n /\ response'.type = "Update")
            /\ \A i \in 1..n : round'.merged[i] \notin left
            /\ left \subseteq round'.dirty]_vars
\* An Update is requested for the second pair merged in the step, with more
\* pairs left in the worklist.
C32_Witness ==
    /\ action \in {"handle_update_log(sync)", "handle_update_log"}
    /\ fate = "running"
    /\ state.tag = "AppendChanges"
    /\ response.type = "Update"
    /\ Len(round.merged) = 2

\* C33: an Update that holds documents but no Eof, handled in Rollback, has
\* its documents written, is answered Continue and leaves the follower in
\* Rollback for the same account and collection with the same outstanding
\* updates and deletes; the rollback bookkeeping of the store is untouched.
\* (Documents the follower had inserted itself are deleted first; what is
\* stored is stated for the documents the message names once.)
C33_PartialDocumentsKeepRollback ==
    [][(/\ action' = "handle_rollback_updates"
        /\ fate' = "running"
        /\ state.tag = "Rollback"
        /\ request'.updates # <<>>
        /\ ~HasEof(request'.updates)) =>
         /\ response' = RespContinue
         /\ state'.tag = "Rollback"
         /\ state'.account_id = state.account_id
         /\ state'.collection = state.collection
         /\ state'.changes.updates = state.changes.updates
         /\ state'.changes.deletes = state.changes.deletes
         /\ store'.rollback = store.rollback
         /\ PairKey(state.account_id, state.collection) \in DOMAIN store'.rollback
         /\ \A i \in DOMAIN request'.updates :
              LET u == request'.updates[i]
                  k == DocKey(u.account_id, "Mail", u.document_id)
                  once == \A j \in DOMAIN request'.updates :
                             (/\ request'.updates[j].account_id = u.account_id
                              /\ request'.updates[j].document_id = u.document_id)
                             => j = i
              IN /\ u.type = "Document"
                 /\ (once /\ u.update.kind = "InsertMail") =>
                      k \in DOMAIN store'.docs /\ store'.docs[k] = u.update.value
                 /\ (once /\ u.update.kind = "UpdateMail") =>
                      IF /\ k \in DOMAIN store.docs
                         /\ ~(/\ u.account_id = state.account_id
                              /\ state.collection = "Mail"
                              /\ u.document_id \in state.changes.inserts)
                      THEN k \in DOMAIN store'.docs /\ store'.docs[k] = u.update.value
                      ELSE k \notin DOMAIN store'.docs]_vars
\* A document was written during a rollback that is still waiting for the
\* rest of its documents.
C33_Witness ==
    /\ action = "handle_rollback_updates"
    /\ fate = "running"
    /\ state.tag = "Rollback"
    /\ response = RespContinue
    /\ request.updates # <<>>
    /\ \E j \in DOMAIN ops : ops[j].op = "write"
    /\ state.changes.updates # {} \/ state.changes.deletes # {}

\* C34: after every step, a follower in AppendEntries or AppendChanges has
\* the up-to-date flag false; and a step that turns the flag from false to
\* true is a step of handle_match_log or of the update handlers that ends in
\* Synchronize.
C34_FlagFalseWhileAppending ==
    [][/\ state'.tag \in {"AppendEntries", "AppendChanges"} => ~up_to_date'
       /\ (~up_to_date /\ up_to_date') =>
            /\ state'.tag = "Synchronize"
            /\ fate' = "running"
            /\ \/ action' = "handle_match_log" /\ response'.type = "Match"
               \/ /\ action' \in {"handle_update_log(sync)", "handle_update_log",
                                  "handle_pending_updates"}
                  /\ response'.type = "Commit"
                  /\ response'.commit_index = request'.commit_index]_vars
\* The follower left AppendChanges for Synchronize with the last documents
\* of the round and is up to date.
C34_Witness ==
    /\ state.tag = "Synchronize"
    /\ up_to_date
    /\ action = "handle_pending_updates"
    /\ response.type = "Commit"

(***************************************************************************)
(* Rollback under a leader that keeps answering                            *)
(***************************************************************************)
\* A step in which the follower, waiting in Rollback, takes an Update that
\* ends with Eof from the channel.
RollbackEof ==
    /\ state.tag = "Rollback"
    /\ fate = "running"
    /\ action' = "handle_rollback_updates"
    /\ request' \in {ReqUpdate(1, WithEof(body, TRUE)) :
                       body \in DocStreams(state.account_id, MaxUpdates)}

\* A follower in Synchronize whose log holds two entries of an old leader,
\* with the change records they name.
InitRollback ==
    \E c1 \in StoredChanges, c2 \in StoredChanges,
       docs \in {EmptyMap, [k \in {DocKey(1, "Mail", 1)} |-> "a"]} :
      /\ store = [raft |-> [r \in {RaftId(1, 1), RaftId(1, 2)} |->
                              IF r.index = 1 THEN Item(1, {"Mail"})
                              ELSE Item(2, {"Mail", "Thread"})],
                  changes |-> [k \in {ChangeKey(1, "Mail", 1),
                                      ChangeKey(2, "Mail", 2),
                                      ChangeKey(2, "Thread", 2)} |->
                                 IF k.collection = "Thread"
                                 THEN [inserts |-> {1}, updates |-> {},
                                       deletes |-> {}]
                                 ELSE IF k.account_id = 1 THEN c1 ELSE c2],
                  pending |-> EmptyMap, last_applied |-> 2, docs |-> docs,
                  rollback |-> EmptyMap]
      /\ hist = EmptyMap
      /\ state = StSynchronize
      /\ ops = <<>>
      /\ change_seq = 0
      /\ up_to_date = FALSE
      /\ fate = "running"
      /\ response = NoResponse
      /\ request = Nil
      /\ action = "start"
      /\ round = NoRound
      /\ crashes = 0
      /\ errors = FALSE
      /\ channel = <<>>
      /\ enqueued = 0
      /\ sent = <<>>
      /\ peer = PeerFrom
      /\ cluster = NewCluster
      /\ rpc = NoRpc
      /\ gossip = NoGossip

NextRollback ==
    \/ MergeInSynchronize
    \/ UpdateInRollback
    \/ ResumeRollback

\* The leader, as long as the follower waits in Rollback, eventually sends
\* the Eof-terminated Update it was asked for.
SpecRollback ==
    InitRollback /\ [][NextRollback]_vars /\ WF_<<request, action>>(RollbackEof)

\* C35: every step of the rollback handler removes as many bookkeeping
\* entries as it went through targets and ends with a reply (Continue or
\* Update in Rollback, Match in Synchronize with no bookkeeping left); and a
\* follower in Rollback whose leader keeps sending Eof-terminated Updates
\* eventually replies Match and is in Synchronize with no bookkeeping left.
C35_RollbackTerminates ==
    /\ [][action' \in {"handle_rollback_updates",
                       "handle_rollback_updates(resume)"} =>
            LET removed == {j \in DOMAIN ops' : ops'[j].op = "remove_rollback"}
            IN /\ fate' = "running"
               /\ Cardinality(DOMAIN store.rollback) =
                    Cardinality(DOMAIN store'.rollback) + Cardinality(removed)
               /\ \/ /\ state'.tag = "Rollback"
                     /\ response'.type \in {"Continue", "Update"}
                     /\ PairKey(state'.account_id, state'.collection)
                          \in DOMAIN store'.rollback
                  \/ /\ state'.tag = "Synchronize"
                     /\ response'.type = "Match"
                     /\ store'.rollback = EmptyMap
                     /\ removed # {}]_vars
    /\ (state.tag = "Rollback" /\ fate = "running")
         ~> (/\ state.tag = "Synchronize"
             /\ response.type = "Match"
             /\ store.rollback = EmptyMap)
\* The rollback of two targets has ended: both bookkeeping entries were
\* removed in the steps that led to the Match reply.
C35_Witness ==
    /\ action = "handle_rollback_updates"
    /\ state.tag = "Synchronize"
    /\ response.type = "Match"
    /\ store.rollback = EmptyMap
    /\ Cardinality({j \in DOMAIN ops : ops[j].op = "remove_rollback"}) >= 2

\* C36: when the liveness of a peer is checked and phi is computed, the sums
\* are divided by the number of heartbeats the window has recorded so far
\* (the size of the window once that many were recorded), so that hb_mean is
\* the arithmetic mean of the recorded samples.
C36_MeanOverRecordedSamples ==
    (gossip.action = "check_heartbeat" /\ peer.hb_sum # Millis(0, 0)) =>
        sample_size(peer) = gossip.samples

(***************************************************************************)
(* The requests of other nodes                                             *)
(***************************************************************************)
\* The variables of the follower task.
TaskVars == <<state, store, change_seq, up_to_date, fate, response, request,
              action, ops, hist, round, crashes, errors, channel, enqueued,
              sent>>
\* The follower task and the detector before anything has happened.
InitIdle ==
    /\ peer = PeerFrom
    /\ gossip = NoGossip
    /\ state = StSynchronize
    /\ store = EmptyStore
    /\ hist = EmptyMap
    /\ ops = <<>>
    /\ change_seq = 0
    /\ up_to_date = FALSE
    /\ fate = "running"
    /\ response = NoResponse
    /\ request = Nil
    /\ action = "start"
    /\ round = NoRound
    /\ crashes = 0
    /\ errors = FALSE
    /\ channel = <<>>
    /\ enqueued = 0
    /\ sent = <<>>

\* The peers the node knows, and the peers that send it requests.
KnownPeers == <<2, 3>>
Requesters == {2, 3, 4}
\* The terms of the requests, and the last logs they and the node have.
RpcTerms == Terms \cup {TermMAX}
RpcLogs == {RaftId(1, 1), RaftId(1, 2), RaftId(2, 2)}

InitRpc ==
    \E term \in Terms, last \in RpcLogs :
      /\ cluster = [NewCluster EXCEPT
                      !.term = term,
                      !.last_log_term = last.term,
                      !.last_log_index = last.index,
                      !.peers = [i \in DOMAIN KnownPeers |->
                                   PeerFromInfo([peer_id |-> KnownPeers[i],
                                                 epoch |-> 0,
                                                 generation |-> 1], 0)]]
      /\ rpc = NoRpc
      /\ InitIdle

\* A node that won an election asks this node to follow it.
BecomeFollower ==
    \E peer_id \in Requesters, term \in RpcTerms, last_log \in RpcLogs,
       outcome \in FollowOutcomes :
      LET r == handle_become_follower(cluster, peer_id, term, last_log, outcome)
      IN /\ cluster' = r.c
         /\ rpc' = [NoRpc EXCEPT !.action = "handle_become_follower",
                                 !.peer_id = peer_id,
                                 !.term = term,
                                 !.request = ReqMatch(last_log),
                                 !.response = r.response,
                                 !.event = r.event]
         /\ UNCHANGED <<TaskVars, GossipVars>>
\* A node sends this node an AppendEntries request.
AppendEntriesFromPeer ==
    \E peer_id \in Requesters, term \in RpcTerms, open \in BOOLEAN,
       req \in {ReqMatch(l) : l \in RpcLogs} \cup {ReqMerge(l) : l \in RpcLogs} :
      LET r == handle_append_entries(cluster, peer_id, term, req, open)
      IN /\ cluster' = r.c
         /\ rpc' = [NoRpc EXCEPT !.action = "handle_append_entries",
                                 !.peer_id = peer_id,
                                 !.term = term,
                                 !.request = req,
                                 !.response = r.response,
                                 !.event = r.event]
         /\ UNCHANGED <<TaskVars, GossipVars>>

NextRpc == BecomeFollower \/ AppendEntriesFromPeer
SpecRpc == InitRpc /\ [][NextRpc]_vars

\* C37: handle_become_follower hands the event Match{last_log} to the
\* follower task only if the requesting peer is known, the term of the
\* request is not lower than the term of the node and the log of the node is
\* behind or equal to last_log; in every other case no event reaches the
\* follower task and the reply is StepDown with the term of the node for a
\* known peer and UnregisteredPeer for an unknown one, whose request leaves
\* the term of the node as it was.
C37_MatchOnlyFromNewerLeader ==
    [][rpc'.action = "handle_become_follower" =>
         LET known == \E i \in DOMAIN cluster.peers :
                         cluster.peers[i].peer_id = rpc'.peer_id
             last_log == rpc'.request.last_log
             own == RaftId(cluster.last_log_term, cluster.last_log_index)
             behind == own.term < last_log.term
                       \/ (own.term = last_log.term /\ own.index <= last_log.index)
             accepted == known /\ rpc'.term >= cluster.term /\ behind
         IN /\ rpc'.event # Nil =>
                 /\ accepted
                 /\ rpc'.event = ReqMatch(last_log)
                 /\ rpc'.response = NoResponse
                 /\ cluster'.state = Follower(rpc'.peer_id)
            /\ ~accepted =>
                 /\ rpc'.event = Nil
                 /\ cluster'.state = cluster.state
                 /\ rpc'.response = IF known THEN RespStepDown(cluster'.term)
                                     ELSE RespUnregisteredPeer
            /\ ~known => cluster' = cluster]_vars
\* A known peer with a newer term and a longer log was accepted as leader:
\* the node has its term, follows it, and the follower task has the Match.
C37_Witness ==
    /\ rpc.action = "handle_become_follower"
    /\ rpc.event = ReqMatch(RaftId(2, 2))
    /\ rpc.term = TermMAX
    /\ cluster.term = TermMAX
    /\ cluster.state = Follower(rpc.peer_id)
    /\ RaftId(cluster.last_log_term, cluster.last_log_index) = RaftId(1, 2)

\* C38: the term of the node never decreases: a handle_become_follower of a
\* known peer and every handle_append_entries leave it at the larger of the
\* term it was and the term of the request, and nothing else changes it; an
\* AppendEntries request of a peer the node does not follow is answered
\* with StepDown carrying that term and does not reach the follower task.
C38_TermIsMaximum ==
    [][LET larger == IF rpc'.term > cluster.term THEN rpc'.term ELSE cluster.term
           known == \E i \in DOMAIN cluster.peers :
                       cluster.peers[i].peer_id = rpc'.peer_id
       IN /\ cluster'.term >= cluster.term
          /\ rpc'.action = "handle_become_follower" =>
               cluster'.term = (IF known THEN larger ELSE cluster.term)
          /\ rpc'.action = "handle_append_entries" =>
               /\ cluster'.term = larger
               /\ cluster'.state = cluster.state
               /\ cluster.state # Follower(rpc'.peer_id) =>
                    /\ rpc'.response = RespStepDown(larger)
                    /\ rpc'.event = Nil
               /\ rpc'.event # Nil =>
                    /\ cluster.state = Follower(rpc'.peer_id)
                    /\ rpc'.event = rpc'.request
                    /\ rpc'.response = NoResponse]_vars
\* A peer the node does not follow sent an AppendEntries request of a term
\* above the node's: the node has that term and told the peer to step down.
C38_Witness ==
    /\ rpc.action = "handle_append_entries"
    /\ rpc.term = TermMAX
    /\ cluster.term = TermMAX
    /\ cluster.state # Follower(rpc.peer_id)
    /\ cluster.state # NotFollower
    /\ rpc.response = RespStepDown(TermMAX)
    /\ rpc.event = Nil

(***************************************************************************)
(* Gossip: the statuses and infos of other nodes                           *)
(***************************************************************************)
\* The epochs peers report, and the lists of statuses (or infos) one message
\* carries: none, one or two, of the peer the node knows (2), of one it
\* does not know (3) and of the node itself (1); the second of two is a
\* status of the known peer.
Epochs == 0..2
Statuses ==
    {[peer_id |-> 2, epoch |-> e, generation |-> g] : e \in Epochs, g \in 1..2}
    \cup {[peer_id |-> 3, epoch |-> 1, generation |-> 1],
          [peer_id |-> 1, epoch |-> 2, generation |-> 1]}
StatusLists ==
    {<<>>} \cup {<<a>> : a \in Statuses}
    \cup {<<a, [peer_id |-> 2, epoch |-> e, generation |-> 1]>> :
            a \in Statuses, e \in Epochs}

\* A peer the node was given the address of and has not heard from: it has
\* no id a status could carry.
SeedPeer ==
    [PeerFromInfo([peer_id |-> 0, epoch |-> 0, generation |-> 0], 0)
       EXCEPT !.state = "Seed"]

\* The node knows peer 2, which the detector may have suspected or
\* convicted since, and may still hold a seed.
InitGossip ==
    \E st \in {"Alive", "Suspected", "Offline"}, seeds \in {<<>>, <<SeedPeer>>} :
      /\ cluster = [NewCluster EXCEPT
                      !.peers = seeds \o
                          <<[PeerFromInfo([peer_id |-> 2, epoch |-> 0,
                                           generation |-> 1], 0)
                               EXCEPT !.state = st]>>]
      /\ rpc = NoRpc
      /\ InitIdle

\* A ping or pong arrives, dt after the last message.
ReceiveStatus ==
    \E peers \in StatusLists, is_ping \in BOOLEAN, dt \in 0..1 :
      /\ rpc.count < MaxMessages
      /\ LET r == handle_ping([cluster EXCEPT !.now = @ + dt], peers, is_ping)
         IN /\ cluster' = r.c
            /\ rpc' = [NoRpc EXCEPT !.action = "handle_ping",
                                    !.request = peers,
                                    !.message = r.message,
                                    !.count = rpc.count + 1]
      /\ UNCHANGED <<TaskVars, GossipVars>>
\* The peer infos of a full synchronization arrive.
ReceiveInfo ==
    \E peers \in StatusLists, dt \in 0..1 :
      /\ rpc.count < MaxMessages
      /\ cluster' = sync_peer_info([cluster EXCEPT !.now = @ + dt], peers)
      /\ rpc' = [NoRpc EXCEPT !.action = "sync_peer_info",
                              !.request = peers,
                              !.count = rpc.count + 1]
      /\ UNCHANGED <<TaskVars, GossipVars>>

NextGossip == ReceiveStatus \/ ReceiveInfo
SpecGossip == InitGossip /\ [][NextGossip]_vars

\* What the detector keeps of a peer: its window and sums, the time of its
\* last heartbeat and its state.
Liveness(p) ==
    <<p.hb_window, p.hb_window_pos, p.hb_sum, p.hb_sq_sum, p.hb_is_full,
      p.last_heartbeat, p.state>>

\* C39: the recorded epoch of a known peer never decreases, and its
\* heartbeat window is updated and its state set to Alive only when a
\* received status or info of the peer carries an epoch strictly greater
\* than the recorded one: then the peer has the largest epoch received, is
\* Alive and its last heartbeat is now.  A message whose statuses of the
\* peer all carry an equal or lower epoch changes neither the window, the
\* time of the last heartbeat, the state nor the epoch.
C39_HeartbeatOnlyOnNewerEpoch ==
    [][rpc'.action \in {"handle_ping", "sync_peer_info"} =>
         \A i \in DOMAIN cluster.peers :
           LET p == cluster.peers[i]
               after == {j \in DOMAIN cluster'.peers :
                           cluster'.peers[j].peer_id = p.peer_id}
               received == {rpc'.request[k].epoch : k \in
                              {k \in DOMAIN rpc'.request :
                                 rpc'.request[k].peer_id = p.peer_id}}
               newer == {e \in received : e > p.epoch}
           IN p.state # "Seed" =>
                /\ Cardinality(after) = 1
                /\ \A j \in after :
                     LET q == cluster'.peers[j]
                     IN /\ q.epoch >= p.epoch
                        /\ newer = {} =>
                             (Liveness(q) = Liveness(p) /\ q.epoch = p.epoch)
                        /\ newer # {} =>
                             /\ q.epoch \in newer
                             /\ \A e \in newer : e <= q.epoch
                             /\ q.state = "Alive"
                             /\ q.last_heartbeat = cluster'.now
                             /\ q.hb_window_pos # p.hb_window_pos]_vars
\* A peer the detector had convicted reported epoch 1 and then epoch 2 and
\* is Alive with two heartbeats in its window; the status handled last is a
\* replay of epoch 1, later than the last heartbeat.
C39_Witness ==
    /\ rpc.action = "handle_ping"
    /\ rpc.request = <<[peer_id |-> 2, epoch |-> 1, generation |-> 1]>>
    /\ \E i \in DOMAIN cluster.peers :
         /\ cluster.peers[i].peer_id = 2
         /\ cluster.peers[i].epoch = 2
         /\ cluster.peers[i].hb_window_pos = 2
         /\ cluster.peers[i].state = "Alive"
         /\ cluster.peers[i].last_heartbeat < cluster.now

====
